---- MODULE Spec2Model ----
(***************************************************************************)
(* Cache-aside / fetch-on-miss orchestration of the LinkedIn Insights      *)
(* service: the page-detail and refresh handlers of app/api/v1/pages.py,   *)
(* the Redis wrapper of app/core/cache.py, the raw provider cache of       *)
(* app/services/linkedin_service.py and the Page / Post / Employee tables. *)
(*                                                                         *)
(* Every request handler is a process; one action is one stretch of the    *)
(* handler between two awaits that touch shared state (cache or store).    *)
(* Each statement sent to the store sees the latest committed rows.        *)
(***************************************************************************)
EXTENDS Integers, Sequences, FiniteSets, TLC

VARIABLES
    client,     \* RedisClient._client is set (TRUE) or None (FALSE)
    up,         \* the Redis server answers the client's commands
    cache,      \* Redis contents: key -> <<>> or <<[val, exp]>>
    pages,      \* rows of table "pages"
    posts,      \* rows of table "posts"
    employees,  \* rows of table "employees"
    now,        \* wall clock, seconds
    procs,      \* in-flight requests: locals and position of each handler
    pre,        \* history: per refresh, the keys whose entry predates it
    nreq,       \* number of requests received so far
    ups         \* harness: a record applied to the write path again and
                \* again, or the argument and result of a helper function

vars == <<client, up, cache, pages, posts, employees, now, procs, pre, nreq, ups>>

-----------------------------------------------------------------------------
(* Bounds *)

NumProcs == 2
MaxRequests == 2
MaxTime == 300

Procs == 1..NumProcs

(* Program constants *)

CACHE_TTL == 300
RecentLimit == 10
PostsCount == 25
EmployeesCount == 50

-----------------------------------------------------------------------------
(* Values.  Optional values are sequences of length at most one.           *)

None == <<>>
Some(x) == <<x>>
NullStr == "null"
NoTime == 0 - 1

\* Vanity names (page_id) as character sequences; the first is a substring
\* of the second.
PageIds == { <<"a", "b">>, <<"a", "b", "c">> }

\* The provider's organization id of a vanity name (str(org["id"])).
OrgIdOf(v) == IF v = <<"a", "b">> THEN <<"1", "0", "1">> ELSE <<"1", "0", "2">>

OrgIds == { OrgIdOf(v) : v \in PageIds }

\* The follower counts and logo URLs the provider reports: the first page's
\* vary from call to call, the second page's are fixed.
FollowerCounts(v) == IF v = <<"a", "b">> THEN {100, 150} ELSE {100}
PictureUrls(v) == IF v = <<"a", "b">> THEN {NullStr, "pic"} ELSE {NullStr}

\* The industry (_extract_industry: None when the provider lists none) and
\* the description (None when the provider has neither form of it) reported
\* for an organization: the first page has both, the second has neither.
IndustryOf(v) == IF v = <<"a", "b">> THEN "tech" ELSE NullStr
DescriptionOf(v) == IF v = <<"a", "b">> THEN "desc" ELSE NullStr

\* What _get_organization_details can return for the organization found under
\* vanity name v: the normalized record the orchestrator receives.
OrgRecords(v) ==
    { [linkedin_id |-> OrgIdOf(v), page_id |-> v, follower_count |-> fc,
       profile_picture_url |-> u, industry |-> IndustryOf(v),
       description |-> DescriptionOf(v)] :
         fc \in FollowerCounts(v), u \in PictureUrls(v) }

\* The records of a provider that also knows the organization found under v
\* by another vanity name: the organization was renamed and the old name
\* still resolves.
AliasRecords(v) ==
    OrgRecords(v) \cup
    { [linkedin_id |-> OrgIdOf(v), page_id |-> w, follower_count |-> 100,
       profile_picture_url |-> NullStr, industry |-> IndustryOf(v),
       description |-> DescriptionOf(v)] : w \in PageIds \ {v} }

\* The provider's posts of an organization, as _parse_post normalizes them.
PostsOf(org) ==
    IF org = <<"1", "0", "1">>
    THEN << [post_id |-> "p1", media_url |-> NullStr, posted_at |-> 10,
             like_count |-> 3, comment_count |-> 1] >>
    ELSE << [post_id |-> "p2", media_url |-> "m2", posted_at |-> 20,
             like_count |-> 4, comment_count |-> 0] >>

\* The provider's employees of an organization, as _parse_employee normalizes.
EmployeesOf(org) ==
    IF org = <<"1", "0", "1">>
    THEN << [linkedin_id |-> "e1", first_name |-> "Ann"] >>
    ELSE << [linkedin_id |-> "e2", first_name |-> "Bob"] >>

-----------------------------------------------------------------------------
(* Key-Value Cache: app/core/cache.py *)

PrefixChars(prefix) ==
    CASE prefix = "page_detail" ->
           <<"p", "a", "g", "e", "_", "d", "e", "t", "a", "i", "l">>
      [] prefix = "org" -> <<"o", "r", "g">>
      [] prefix = "posts" -> <<"p", "o", "s", "t", "s">>
      [] prefix = "employees" ->
           <<"e", "m", "p", "l", "o", "y", "e", "e", "s">>
      [] prefix = "post_detail" ->
           <<"p", "o", "s", "t", "_", "d", "e", "t", "a", "i", "l">>
      [] prefix = "ai_summary" ->
           <<"a", "i", "_", "s", "u", "m", "m", "a", "r", "y">>
      [] prefix = "quick_summary" ->
           <<"q", "u", "i", "c", "k", "_", "s", "u", "m", "m", "a", "r", "y">>

\* str(arg) of an integer argument of cache_key.
DigitsOf(n) ==
    CASE n = 0 -> <<"0">>
      [] n = 25 -> <<"2", "5">>
      [] n = 50 -> <<"5", "0">>

\* RedisClient.cache_key: f"{prefix}:{':'.join(str(arg) for arg in args)}".
RECURSIVE JoinArgs(_)
JoinArgs(args) ==
    IF Len(args) = 0 THEN <<>>
    ELSE IF Len(args) = 1 THEN args[1]
    ELSE args[1] \o <<":">> \o JoinArgs(Tail(args))

cache_key(prefix, args) == PrefixChars(prefix) \o <<":">> \o JoinArgs(args)

PageDetailKey(v) == cache_key("page_detail", <<v>>)
OrgKey(v) == cache_key("org", <<v>>)
PostsKey(org) == cache_key("posts", <<org, DigitsOf(0), DigitsOf(PostsCount)>>)
EmployeesKey(org) ==
    cache_key("employees", <<org, DigitsOf(0), DigitsOf(EmployeesCount)>>)

\* The post ids the provider knows, and their characters.
PostIds == { "p1", "p2" }
PostIdChars(id) == IF id = "p1" THEN <<"p", "1">> ELSE <<"p", "2">>

PostDetailKey(id) == cache_key("post_detail", <<PostIdChars(id)>>)
AiSummaryKey(v) == cache_key("ai_summary", <<v>>)
QuickSummaryKey(v) == cache_key("quick_summary", <<v>>)

\* The keys of the two summaries of a page.
SummaryKeys(v) == { AiSummaryKey(v), QuickSummaryKey(v) }

AllKeys ==
    { PageDetailKey(v) : v \in PageIds } \cup { OrgKey(v) : v \in PageIds }
      \cup { PostsKey(o) : o \in OrgIds } \cup { EmployeesKey(o) : o \in OrgIds }
      \cup { PostDetailKey(id) : id \in PostIds }
      \cup { AiSummaryKey(v) : v \in PageIds }
      \cup { QuickSummaryKey(v) : v \in PageIds }

\* The keys built from the page's own identifier.
OwnKeys(v) == { PageDetailKey(v), OrgKey(v) }

\* Redis glob "*pat*" against a key: pat occurs in the key.
GlobContains(pat, key) ==
    \E i \in 1..(Len(key) - Len(pat) + 1) :
        SubSeq(key, i, i + Len(pat) - 1) = pat

\* An entry Redis still holds at time t.
Live(c, k, t) == c[k] # None /\ t < c[k][1].exp

\* RedisClient.get: None without a client, else the decoded value.
CacheGet(k) ==
    IF client /\ Live(cache, k, now) THEN Some(cache[k][1].val) ELSE None

\* Mutant of CacheSetTtl: the ttl argument is ignored.
CacheSetTtlDefault(ttl) == CACHE_TTL

\* RedisClient.set: setex(key, ttl or CACHE_TTL, json.dumps(value)).
CacheSetTtl(ttl) == IF ttl = 0 THEN CACHE_TTL ELSE ttl

CacheSet(c, k, v, ttl) ==
    IF client
    THEN [c EXCEPT ![k] = Some([val |-> v, exp |-> now + CacheSetTtl(ttl)])]
    ELSE c

\* Mutant of ClearPattern: the pattern is f"{pat}*", a prefix match.
ClearPatternPrefix(c, pat) ==
    IF client
    THEN [k \in AllKeys |->
            IF Len(k) >= Len(pat) /\ SubSeq(k, 1, Len(pat)) = pat
            THEN None ELSE c[k]]
    ELSE c

\* Mutant of ClearPattern: only the composed page response is deleted.
ClearPatternDetail(c, pat) ==
    IF client
    THEN [k \in AllKeys |->
            IF k = cache_key("page_detail", <<pat>>) THEN None ELSE c[k]]
    ELSE c

\* RedisClient.clear_pattern(f"*{pat}*"): delete every key KEYS returns.
ClearPattern(c, pat) ==
    IF client
    THEN [k \in AllKeys |-> IF GlobContains(pat, k) THEN None ELSE c[k]]
    ELSE c


\* A command sent through a client whose connection is lost raises
\* (redis ConnectionError): get, set, delete and clear_pattern await the
\* client's call outside any try block (lines 40, 51, 63, 71).
Raises == client /\ ~up

-----------------------------------------------------------------------------
(* Entity Store: app/models/page.py, post.py, employee.py *)

\* select(Page).where(Page.page_id == pid) ... scalar_one_or_none()
PageBy(pgs, pid) ==
    LET s == { r \in pgs : r.page_id = pid }
    IN  IF s = {} THEN None ELSE Some(CHOOSE r \in s : TRUE)

PageById(pgs, id) == CHOOSE r \in pgs : r.id = id

\* unique=True on pages.page_id and pages.linkedin_id.
PageUnique(pgs) ==
    \A r1, r2 \in pgs :
        r1.id # r2.id =>
            r1.page_id # r2.page_id /\ r1.linkedin_id # r2.linkedin_id

\* unique=True on posts.post_id; posts.page_id references pages.id.
PostUnique(psts) ==
    \A r1, r2 \in psts : r1.id # r2.id => r1.post_id # r2.post_id

\* unique=True on employees.linkedin_id.
EmployeeUnique(emps) ==
    \A r1, r2 \in emps : r1.id # r2.id => r1.linkedin_id # r2.linkedin_id

\* Mutant of PageToDict: only the cloned picture is exposed.
PageToDictCloned(row) ==
    [id |-> row.id, page_id |-> row.page_id, linkedin_id |-> row.linkedin_id,
     follower_count |-> row.follower_count,
     industry |-> row.industry, description |-> row.description,
     profile_picture_url |-> row.profile_picture_s3_url,
     last_scraped_at |-> row.last_scraped_at]

\* Page.to_dict: the cloned picture takes precedence over the original.
PageToDict(row) ==
    [id |-> row.id, page_id |-> row.page_id, linkedin_id |-> row.linkedin_id,
     follower_count |-> row.follower_count,
     industry |-> row.industry, description |-> row.description,
     profile_picture_url |->
         IF row.profile_picture_s3_url # NullStr
         THEN row.profile_picture_s3_url ELSE row.profile_picture_url,
     last_scraped_at |-> row.last_scraped_at]

\* Post.to_dict
PostToDict(row) ==
    [id |-> row.id, post_id |-> row.post_id, page_id |-> row.page_id,
     media_url |->
         IF row.media_s3_url # NullStr THEN row.media_s3_url ELSE row.media_url,
     like_count |-> row.like_count, comment_count |-> row.comment_count,
     posted_at |-> row.posted_at]

\* PageResponse.model_validate(page): read from the row's attributes.
PageResponse(row) ==
    [id |-> row.id, page_id |-> row.page_id, linkedin_id |-> row.linkedin_id,
     follower_count |-> row.follower_count,
     industry |-> row.industry, description |-> row.description,
     profile_picture_url |-> row.profile_picture_url,
     last_scraped_at |-> row.last_scraped_at]

-----------------------------------------------------------------------------
(* Serialization of cached values: json.dumps(value, default=str) writes a *)
(* datetime as its string form, json.loads gives the string back, and the  *)
(* datetime fields of a response model parse it.  The string form of the   *)
(* time t is the number -(t + 2); None is written as null.                 *)

DateStr(t) == IF t = NoTime THEN NoTime ELSE 0 - (t + 2)

ParseDate(s) == IF s < NoTime THEN 0 - (s + 2) ELSE s

\* json.loads(json.dumps(response_data, default=str))
ToJson(d) ==
    [d EXCEPT !.last_scraped_at = DateStr(@),
              !.recent_posts =
                  [i \in 1..Len(@) |-> [@[i] EXCEPT !.posted_at = DateStr(@)]]]

\* PageDetailResponse(**d): last_scraped_at is a datetime field, recent_posts
\* is List[dict] and is kept as given.
PageDetailResponse(d) == [d EXCEPT !.last_scraped_at = ParseDate(@)]

\* ORDER BY posted_at DESC LIMIT n over a set of post rows.
RECURSIVE RecentPosts(_, _)
RecentPosts(rows, n) ==
    IF rows = {} \/ n = 0 THEN <<>>
    ELSE LET top == CHOOSE r \in rows : \A q \in rows : q.posted_at <= r.posted_at
         IN  <<PostToDict(top)>> \o RecentPosts(rows \ {top}, n - 1)

\* get_page, lines 115-134: the composed response of a page.
Compose(page, psts) ==
    LET mine == { r \in psts : r.page_id = page.id }
        d == PageToDict(page)
    IN  [id |-> d.id, page_id |-> d.page_id, linkedin_id |-> d.linkedin_id,
         follower_count |-> d.follower_count,
         industry |-> d.industry, description |-> d.description,
         profile_picture_url |-> d.profile_picture_url,
         last_scraped_at |-> d.last_scraped_at,
         posts_count |-> Cardinality(mine),
         recent_posts |-> RecentPosts(mine, RecentLimit)]

-----------------------------------------------------------------------------
(* Media Cloning: app/services/storage_service.py *)

\* clone_page_images: None without a source URL, else upload_from_url, which
\* returns the durable URL or None on any failure.
ClonePageOutcomes(url) ==
    IF url = NullStr THEN {NullStr} ELSE {NullStr, "s3/profile_picture.jpg"}

\* clone_post_media
ClonePostOutcomes(url) ==
    IF url = NullStr THEN {NullStr} ELSE {NullStr, "s3/post_media"}

-----------------------------------------------------------------------------
(* The write path of the pipeline: app/api/v1/pages.py *)

\* Mutant of MergePage: follower_count is not among the copied fields.
MergePageKeepCount(row, data, s3, t) ==
    [row EXCEPT
        !.linkedin_id = data.linkedin_id,
        !.page_id = data.page_id,
        !.profile_picture_url =
            IF data.profile_picture_url # NullStr
            THEN data.profile_picture_url ELSE @,
        !.industry = IF data.industry # NullStr THEN data.industry ELSE @,
        !.description =
            IF data.description # NullStr THEN data.description ELSE @,
        !.profile_picture_s3_url = s3,
        !.last_scraped_at = t]

\* Lines 302-309: every non-None value of linkedin_data is assigned to the
\* row, then the cloned picture and last_scraped_at; the columns that are not
\* assigned keep what the store holds.
MergePage(row, data, s3, t) ==
    [row EXCEPT
        !.linkedin_id = data.linkedin_id,
        !.page_id = data.page_id,
        !.follower_count = data.follower_count,
        !.profile_picture_url =
            IF data.profile_picture_url # NullStr
            THEN data.profile_picture_url ELSE @,
        !.industry = IF data.industry # NullStr THEN data.industry ELSE @,
        !.description =
            IF data.description # NullStr THEN data.description ELSE @,
        !.profile_picture_s3_url = s3,
        !.last_scraped_at = t]

\* Mutant of NewPage: the insert leaves last_scraped_at unset.
NewPageUnstamped(id, pid, data, s3, t) ==
    [id |-> id, page_id |-> pid, linkedin_id |-> data.linkedin_id,
     follower_count |-> data.follower_count,
     industry |-> data.industry, description |-> data.description,
     profile_picture_url |-> data.profile_picture_url,
     profile_picture_s3_url |-> s3,
     last_scraped_at |-> NoTime]

\* Lines 315-333: the new row of a page fetched for the first time.
NewPage(id, pid, data, s3, t) ==
    [id |-> id, page_id |-> pid, linkedin_id |-> data.linkedin_id,
     follower_count |-> data.follower_count,
     industry |-> data.industry, description |-> data.description,
     profile_picture_url |-> data.profile_picture_url,
     profile_picture_s3_url |-> s3,
     last_scraped_at |-> t]

\* Mutant of StorePage: the table has no unique constraints.
StorePageUnchecked(pgs, existing, pid, data, s3, t) ==
    LET new == IF existing # None
               THEN (pgs \ { r \in pgs : r.id = existing[1].id })
                       \cup { MergePage(PageById(pgs, existing[1].id),
                                        data, s3, t) }
               ELSE pgs \cup { NewPage(Cardinality(pgs) + 1, pid, data, s3, t) }
        id == IF existing # None THEN existing[1].id ELSE Cardinality(pgs) + 1
    IN  [ok |-> TRUE, pages |-> new, id |-> id]

\* Lines 302-337: write the page.  The commit fails (IntegrityError) when it
\* would break a unique constraint, and then nothing is written.
StorePage(pgs, existing, pid, data, s3, t) ==
    LET new == IF existing # None
               THEN (pgs \ { r \in pgs : r.id = existing[1].id })
                       \cup { MergePage(PageById(pgs, existing[1].id),
                                        data, s3, t) }
               ELSE pgs \cup { NewPage(Cardinality(pgs) + 1, pid, data, s3, t) }
        id == IF existing # None THEN existing[1].id ELSE Cardinality(pgs) + 1
    IN  IF PageUnique(new)
        THEN [ok |-> TRUE, pages |-> new, id |-> id]
        ELSE [ok |-> FALSE, pages |-> pgs, id |-> id]

\* Lines 352-377: one Post row per fetched post, added without a lookup,
\* then one commit.  s3[i] is the cloning result of the i-th post.
RECURSIVE AddPosts(_, _, _, _, _)
AddPosts(psts, page, data, s3, i) ==
    IF i > Len(data) THEN psts
    ELSE AddPosts(
            psts \cup { [id |-> Cardinality(psts) + 1,
                         post_id |-> data[i].post_id,
                         page_id |-> page.id,
                         media_url |-> data[i].media_url,
                         media_s3_url |-> s3[i],
                         like_count |-> data[i].like_count,
                         comment_count |-> data[i].comment_count,
                         posted_at |-> ParseDate(data[i].posted_at)] },
            page, data, s3, i + 1)

StorePosts(psts, page, data, s3) ==
    LET new == AddPosts(psts, page, data, s3, 1)
    IN  IF PostUnique(new) THEN [ok |-> TRUE, posts |-> new]
        ELSE [ok |-> FALSE, posts |-> psts]

\* Lines 384-400: one Employee row per fetched employee, then one commit.
RECURSIVE AddEmployees(_, _, _, _)
AddEmployees(emps, page, data, i) ==
    IF i > Len(data) THEN emps
    ELSE AddEmployees(
            emps \cup { [id |-> Cardinality(emps) + 1,
                         linkedin_id |-> data[i].linkedin_id,
                         page_id |-> page.id,
                         first_name |-> data[i].first_name,
                         is_employee |-> TRUE,
                         is_follower |-> FALSE,
                         is_following |-> FALSE] },
            page, data, i + 1)

StoreEmployees(emps, page, data) ==
    LET new == AddEmployees(emps, page, data, 1)
    IN  IF EmployeeUnique(new) THEN [ok |-> TRUE, employees |-> new]
        ELSE [ok |-> FALSE, employees |-> emps]


-----------------------------------------------------------------------------
(* Requests *)

\* The locals of a handler.  The fields from hit on are history: what the
\* request found when it arrived (had: the page was stored; stale: the cache
\* held a composed response of the page; raw: the entry of the raw-response
\* cache for the page), the stored row it replaced (before) and what it has
\* done so far.
Idle ==
    [op |-> "idle", pc |-> "idle", pid |-> <<"a", "b">>,
     fetch_if_missing |-> FALSE, force_update |-> FALSE,
     page |-> None, existing_page |-> None, linkedin_data |-> None,
     s3_picture_url |-> NullStr, response_data |-> None,
     result |-> "none", resp |-> None,
     hit |-> FALSE, had |-> FALSE, stale |-> FALSE, created |-> FALSE,
     before |-> None, raw |-> None, upCalls |-> 0, clones |-> 0,
     reads |-> 0,
     post_id |-> "p1", include_comments |-> TRUE, force_refresh |-> FALSE,
     include_posts |-> TRUE, include_employees |-> TRUE,
     page_ids |-> <<>>, pages_data |-> <<>>, aiCalls |-> 0, aiFailed |-> FALSE,
     sets |-> 0, summaries |-> {}]

\* The handler returns: a response, or an HTTP error.
Return(l, result, resp) ==
    [l EXCEPT !.pc = "done", !.result = result, !.resp = resp,
              !.page = None, !.existing_page = None, !.linkedin_data = None,
              !.s3_picture_url = NullStr, !.response_data = None,
              !.raw = None, !.pages_data = <<>>]

\* _fetch_and_store_page returns pg to its caller: get_page goes on to
\* compose (lines 112-113), refresh_page answers (lines 157-160).
FsReturn(l, pg) ==
    IF pg = None THEN Return(l, "404", None)
    ELSE IF l.op = "get_page"
         THEN [l EXCEPT !.page = pg, !.pc = "gp_compose"]
         ELSE Return(l, "ok", Some(PageResponse(pg[1])))

\* The entries written or deleted stop being entries that predate a refresh.
Touch(keys) == [q \in Procs |-> pre[q] \ keys]

\* The store outlives the process and the cache: it is empty, or holds a
\* page synced by an earlier run together with its first post and employee.
SeedPage ==
    NewPage(1, <<"a", "b">>,
            [linkedin_id |-> OrgIdOf(<<"a", "b">>), page_id |-> <<"a", "b">>,
             follower_count |-> 100, profile_picture_url |-> "pic",
             industry |-> "tech", description |-> "desc"],
            "s3/profile_picture.jpg", 0)

Stores ==
    { [pages |-> {}, posts |-> {}, employees |-> {}],
      [pages |-> {SeedPage},
       posts |-> StorePosts({}, SeedPage, PostsOf(SeedPage.linkedin_id),
                            <<NullStr>>).posts,
       employees |-> StoreEmployees({}, SeedPage,
                                    EmployeesOf(SeedPage.linkedin_id)).employees] }

\* No record has been applied to the store yet.  ups remembers the record
\* that is being applied, how many times it has been (n), whether the last
\* application committed (ok) and the store after the first one (snap).
NoUpsert ==
    [kind |-> "none", n |-> 0, ok |-> TRUE, pid |-> <<"a", "b">>,
     page_data |-> None, page |-> None, list |-> <<>>, s3 |-> NullStr,
     s3s |-> <<>>,
     snap |-> [pages |-> {}, posts |-> {}, employees |-> {}]]

Init ==
    /\ client \in BOOLEAN
    /\ up = TRUE
    /\ cache = [k \in AllKeys |-> None]
    /\ \E st \in Stores :
          /\ pages = st.pages
          /\ posts = st.posts
          /\ employees = st.employees
    /\ now = 0
    /\ procs = [p \in Procs |-> Idle]
    /\ pre = [p \in Procs |-> {}]
    /\ nreq = 0
    /\ ups = NoUpsert

\* The live entry of the raw-response cache for vanity name v, if any.
RawEntry(v) ==
    IF Live(cache, OrgKey(v), now) THEN cache[OrgKey(v)] ELSE None

\* A request is taken by the lowest free worker.
Free(p) ==
    /\ nreq < MaxRequests
    /\ procs[p].pc \in {"idle", "done"}
    /\ \A q \in Procs : q < p => procs[q].pc \notin {"idle", "done"}

\* A request arrives: GET /{page_id} or POST /{page_id}/refresh.
StartGetPage(p, pid, fim) ==
    /\ Free(p)
    /\ nreq' = nreq + 1
    /\ procs' = [procs EXCEPT ![p] =
                    [Idle EXCEPT !.op = "get_page", !.pc = "gp_cache",
                                 !.pid = pid, !.fetch_if_missing = fim,
                                 !.had = PageBy(pages, pid) # None,
                                 !.raw = RawEntry(pid)]]
    /\ pre' = [pre EXCEPT ![p] = {}]
    /\ UNCHANGED <<client, up, cache, pages, posts, employees, now, ups>>

StartRefresh(p, pid) ==
    /\ Free(p)
    /\ nreq' = nreq + 1
    /\ procs' = [procs EXCEPT ![p] =
                    [Idle EXCEPT !.op = "refresh", !.pc = "rf_clear",
                                 !.pid = pid, !.force_update = TRUE,
                                 !.had = PageBy(pages, pid) # None,
                                 !.raw = RawEntry(pid),
                                 !.stale =
                                     Live(cache, PageDetailKey(pid), now),
                                 !.summaries =
                                     { k \in SummaryKeys(pid) :
                                          Live(cache, k, now) }]]
    /\ pre' = [pre EXCEPT ![p] = { k \in AllKeys : Live(cache, k, now) }]
    /\ UNCHANGED <<client, up, cache, pages, posts, employees, now, ups>>

\* Mutant of GetPageCache: the cached response is not looked at.
GetPageCacheIgnored(p) ==
    /\ procs[p].pc = "gp_cache"
    /\ procs' = [procs EXCEPT ![p] = [procs[p] EXCEPT !.pc = "gp_db"]]
    /\ UNCHANGED <<client, up, cache, pages, posts, employees, now, pre, nreq, ups>>

\* get_page, lines 97-101: the cache check.
GetPageCache(p) ==
    LET l == procs[p]
        cached == CacheGet(PageDetailKey(l.pid))
    IN  /\ l.pc = "gp_cache"
        /\ ~Raises
        /\ procs' = [procs EXCEPT ![p] =
              IF cached # None
              THEN Return([l EXCEPT !.hit = TRUE], "ok",
                          Some(PageDetailResponse(cached[1])))
              ELSE [l EXCEPT !.pc = "gp_db"]]
        /\ UNCHANGED <<client, up, cache, pages, posts, employees, now, pre, nreq, ups>>

\* Mutant of GetPageDb: fetch_if_missing is not honoured.
GetPageDbAlwaysFetch(p) ==
    LET l == procs[p]
        page == PageBy(pages, l.pid)
        m == [l EXCEPT !.page = page, !.reads = @ + 1]
    IN  /\ l.pc = "gp_db"
        /\ procs' = [procs EXCEPT ![p] =
              IF page = None THEN [m EXCEPT !.pc = "fs_exist"]
              ELSE [m EXCEPT !.pc = "gp_compose"]]
        /\ UNCHANGED <<client, up, cache, pages, posts, employees, now, pre, nreq, ups>>

\* Mutant of GetPageDb: a stored page is re-fetched when fetching is allowed.
GetPageDbRefetch(p) ==
    LET l == procs[p]
        page == PageBy(pages, l.pid)
        m == [l EXCEPT !.page = page, !.reads = @ + 1]
    IN  /\ l.pc = "gp_db"
        /\ procs' = [procs EXCEPT ![p] =
              IF l.fetch_if_missing
              THEN [m EXCEPT !.pc = "fs_exist", !.force_update = TRUE]
              ELSE IF page = None THEN Return(m, "404", None)
              ELSE [m EXCEPT !.pc = "gp_compose"]]
        /\ UNCHANGED <<client, up, cache, pages, posts, employees, now, pre, nreq, ups>>

\* get_page, lines 103-113: the store check and the fetch decision.
GetPageDb(p) ==
    LET l == procs[p]
        page == PageBy(pages, l.pid)
        m == [l EXCEPT !.page = page, !.reads = @ + 1]
    IN  /\ l.pc = "gp_db"
        /\ procs' = [procs EXCEPT ![p] =
              IF page = None /\ l.fetch_if_missing
              THEN [m EXCEPT !.pc = "fs_exist"]
              ELSE IF page = None THEN Return(m, "404", None)
              ELSE [m EXCEPT !.pc = "gp_compose"]]
        /\ UNCHANGED <<client, up, cache, pages, posts, employees, now, pre, nreq, ups>>

\* Mutant of RefreshClear: the refresh does not invalidate.
RefreshClearSkipped(p) ==
    /\ procs[p].pc = "rf_clear"
    /\ procs' = [procs EXCEPT ![p] = [procs[p] EXCEPT !.pc = "fs_exist"]]
    /\ UNCHANGED <<client, up, cache, pages, posts, employees, now, pre, nreq, ups>>

\* refresh_page, lines 151-152: invalidate, then enter the pipeline.
RefreshClear(p) ==
    LET l == procs[p]
        c == ClearPattern(cache, l.pid)
    IN  /\ l.pc = "rf_clear"
        /\ ~Raises
        /\ cache' = c
        /\ pre' = Touch({ k \in AllKeys : c[k] # cache[k] })
        /\ procs' = [procs EXCEPT ![p] = [l EXCEPT !.pc = "fs_exist"]]
        /\ UNCHANGED <<client, up, pages, posts, employees, now, nreq, ups>>

\* _fetch_and_store_page, lines 282-288: is the page already stored?
FsExist(p) ==
    LET l == procs[p]
        existing == PageBy(pages, l.pid)
        m == [l EXCEPT !.existing_page = existing, !.reads = @ + 1]
    IN  /\ l.pc = "fs_exist"
        /\ procs' = [procs EXCEPT ![p] =
              IF existing # None /\ ~l.force_update
              THEN FsReturn(m, existing)
              ELSE [m EXCEPT !.pc = "li_cache"]]
        /\ UNCHANGED <<client, up, cache, pages, posts, employees, now, pre, nreq, ups>>

\* get_organization_by_vanity_name, lines 41-45: the raw-response cache.
LiCache(p) ==
    LET l == procs[p]
        cached == CacheGet(OrgKey(l.pid))
    IN  /\ l.pc = "li_cache"
        /\ ~Raises
        /\ procs' = [procs EXCEPT ![p] =
              IF cached # None
              THEN [l EXCEPT !.linkedin_data = cached, !.pc = "fs_commit"]
              ELSE [l EXCEPT !.pc = "li_http"]]
        /\ UNCHANGED <<client, up, cache, pages, posts, employees, now, pre, nreq, ups>>

\* Mutant of LiHttp: when the provider has nothing, a stored page is kept
\* and stamped as synced.
LiHttpTouch(p) ==
    LET l == procs[p]
        m == [l EXCEPT !.upCalls = @ + 1]
    IN  /\ l.pc = "li_http"
        /\ \/ \E r \in OrgRecords(l.pid) :
                /\ cache' = CacheSet(cache, OrgKey(l.pid), r, 0)
                /\ pre' = Touch(IF client THEN {OrgKey(l.pid)} ELSE {})
                /\ pages' = pages
                /\ procs' = [procs EXCEPT ![p] =
                      [m EXCEPT !.linkedin_data = Some(r), !.pc = "fs_commit"]]
           \/ /\ procs' = [procs EXCEPT ![p] = FsReturn(m, None)]
              /\ pages' = { IF r.page_id = l.pid
                            THEN [r EXCEPT !.last_scraped_at = now] ELSE r :
                            r \in pages }
              /\ UNCHANGED <<cache, pre>>
        /\ UNCHANGED <<client, up, posts, employees, now, nreq, ups>>

\* get_organization_by_vanity_name, lines 47-73: the provider is asked.  It
\* answers with a record, which is cached (lines 64-67), or the lookup finds
\* nothing / fails (None; an empty detail record {} is falsy at line 293 and
\* ends the same way).
LiHttpOf(p, recs) ==
    LET l == procs[p]
        m == [l EXCEPT !.upCalls = @ + 1]
    IN  /\ l.pc = "li_http"
        /\ \/ \E r \in recs :
                /\ ~Raises
                /\ cache' = CacheSet(cache, OrgKey(l.pid), r, 0)
                /\ pre' = Touch(IF client THEN {OrgKey(l.pid)} ELSE {})
                /\ procs' = [procs EXCEPT ![p] =
                      [m EXCEPT !.linkedin_data = Some(r), !.pc = "fs_commit"]]
           \/ /\ procs' = [procs EXCEPT ![p] = FsReturn(m, None)]
              /\ UNCHANGED <<cache, pre>>
        /\ UNCHANGED <<client, up, pages, posts, employees, now, nreq, ups>>

\* The provider answers a lookup of v with the organization named v.
LiHttp(p) == LiHttpOf(p, OrgRecords(procs[p].pid))

\* The provider answers a lookup of v with an organization whose vanityName
\* may be another name (line 97 copies the provider's vanityName).
LiHttpAlias(p) == LiHttpOf(p, AliasRecords(procs[p].pid))

\* Mutant of FsCommit: the update path cascades into posts and employees
\* like the create path.
FsCommitCascade(p) ==
    LET l == procs[p]
    IN  /\ l.pc = "fs_commit"
        /\ \E s3 \in ClonePageOutcomes(l.linkedin_data[1].profile_picture_url) :
           LET w == StorePage(pages, l.existing_page, l.pid,
                              l.linkedin_data[1], s3, now)
               row == Some(PageById(w.pages, w.id))
               m == [l EXCEPT !.s3_picture_url = s3, !.clones = @ + 1,
                              !.before = PageBy(pages, l.pid)]
           IN  /\ pages' = w.pages
               /\ procs' = [procs EXCEPT ![p] =
                     IF ~w.ok THEN Return(m, "500", None)
                     ELSE [m EXCEPT !.page = row,
                                    !.created = (l.existing_page = None),
                                    !.pc = "fs_posts"]]
        /\ UNCHANGED <<client, up, cache, posts, employees, now, pre, nreq, ups>>

\* _fetch_and_store_page, lines 296-337: clone the profile picture, update
\* the loaded row or insert a new one, commit and re-read.  A failed commit
\* raises (HTTP 500).
FsCommit(p) ==
    LET l == procs[p]
    IN  /\ l.pc = "fs_commit"
        /\ \E s3 \in ClonePageOutcomes(l.linkedin_data[1].profile_picture_url) :
           LET w == StorePage(pages, l.existing_page, l.pid,
                              l.linkedin_data[1], s3, now)
               row == Some(PageById(w.pages, w.id))
               m == [l EXCEPT !.s3_picture_url = s3, !.clones = @ + 1,
                              !.before = PageBy(pages, l.pid)]
           IN  /\ pages' = w.pages
               /\ procs' = [procs EXCEPT ![p] =
                     IF ~w.ok THEN Return(m, "500", None)
                     ELSE IF l.existing_page # None THEN FsReturn(m, row)
                     ELSE [m EXCEPT !.page = row, !.created = TRUE,
                                    !.pc = "fs_posts"]]
        /\ UNCHANGED <<client, up, cache, posts, employees, now, pre, nreq, ups>>

\* json.loads(json.dumps(posts, default=str)) of a list of normalized posts.
PostsToJson(data) ==
    [i \in 1..Len(data) |-> [data[i] EXCEPT !.posted_at = DateStr(@)]]

\* get_organization_posts past its cache check, lines 152-175: the parsed
\* posts of a 200 answer, or [] on any other answer or HTTP error.
FetchPostsOutcomes(org) == { PostsOf(org), <<>> }

\* get_organization_employees past its cache check, lines 269-291.
FetchEmployeesOutcomes(org) == { EmployeesOf(org), <<>> }

\* The cloning results of a list of posts, one per post.
ClonePostsOutcomes(data) ==
    { f \in [1..Len(data) -> {NullStr, "s3/post_media"}] :
        \A i \in 1..Len(data) : f[i] \in ClonePostOutcomes(data[i].media_url) }

\* Mutant of FsPosts: a failed fetch of the posts is raised to the caller.
FsPostsRaises(p) ==
    LET l == procs[p]
        page == l.page[1]
        key == PostsKey(page.linkedin_id)
        cached == CacheGet(key)
        usable == cached # None /\ cached[1] # <<>>
    IN  /\ l.pc = "fs_posts"
        /\ ~Raises
        /\ \E got \in FetchPostsOutcomes(page.linkedin_id) :
           LET data == IF usable THEN cached[1] ELSE got
               set == ~usable /\ got # <<>> /\ client
           IN  \E s3 \in ClonePostsOutcomes(data) :
               LET w == StorePosts(posts, page, data, s3)
               IN  /\ cache' = IF set
                               THEN CacheSet(cache, key, PostsToJson(got), 0)
                               ELSE cache
                   /\ pre' = Touch(IF set THEN {key} ELSE {})
                   /\ posts' = w.posts
                   /\ procs' = [procs EXCEPT ![p] =
                         LET m == [l EXCEPT !.upCalls =
                                       IF usable THEN @ ELSE @ + 1]
                         IN  IF w.ok /\ (usable \/ got # <<>>)
                             THEN [m EXCEPT !.pc = "fs_employees"]
                             ELSE Return(m, "500", None)]
        /\ UNCHANGED <<client, up, pages, employees, now, nreq, ups>>

\* _fetch_and_store_posts, lines 348-377, run for a page just created.  A
\* cached list is used when it is non-empty (line 149).
FsPosts(p) ==
    LET l == procs[p]
        page == l.page[1]
        key == PostsKey(page.linkedin_id)
        cached == CacheGet(key)
        usable == cached # None /\ cached[1] # <<>>
    IN  /\ l.pc = "fs_posts"
        /\ ~Raises
        /\ \E got \in FetchPostsOutcomes(page.linkedin_id) :
           LET data == IF usable THEN cached[1] ELSE got
               set == ~usable /\ got # <<>> /\ client
           IN  \E s3 \in ClonePostsOutcomes(data) :
               LET w == StorePosts(posts, page, data, s3)
               IN  /\ cache' = IF set
                               THEN CacheSet(cache, key, PostsToJson(got), 0)
                               ELSE cache
                   /\ pre' = Touch(IF set THEN {key} ELSE {})
                   /\ posts' = w.posts
                   /\ procs' = [procs EXCEPT ![p] =
                         LET m == [l EXCEPT !.upCalls =
                                       IF usable THEN @ ELSE @ + 1]
                         IN  IF w.ok THEN [m EXCEPT !.pc = "fs_employees"]
                             ELSE Return(m, "500", None)]
        /\ UNCHANGED <<client, up, pages, employees, now, nreq, ups>>

\* _fetch_and_store_employees, lines 380-400, then the pipeline returns the
\* new page (line 345).
FsEmployees(p) ==
    LET l == procs[p]
        page == l.page[1]
        key == EmployeesKey(page.linkedin_id)
        cached == CacheGet(key)
        usable == cached # None /\ cached[1] # <<>>
    IN  /\ l.pc = "fs_employees"
        /\ ~Raises
        /\ \E got \in FetchEmployeesOutcomes(page.linkedin_id) :
           LET data == IF usable THEN cached[1] ELSE got
               set == ~usable /\ got # <<>> /\ client
               w == StoreEmployees(employees, page, data)
           IN  /\ cache' = IF set THEN CacheSet(cache, key, got, 0) ELSE cache
               /\ pre' = Touch(IF set THEN {key} ELSE {})
               /\ employees' = w.employees
               /\ procs' = [procs EXCEPT ![p] =
                     LET m == [l EXCEPT !.upCalls = IF usable THEN @ ELSE @ + 1]
                     IN  IF w.ok THEN FsReturn(m, l.page)
                         ELSE Return(m, "500", None)]
        /\ UNCHANGED <<client, up, pages, posts, now, nreq, ups>>

\* Mutant of GetPageCompose: serving the detail stamps the page as synced.
GetPageComposeTouch(p) ==
    LET l == procs[p]
    IN  /\ l.pc = "gp_compose"
        /\ pages' = { IF r.id = l.page[1].id
                      THEN [r EXCEPT !.last_scraped_at = now] ELSE r :
                      r \in pages }
        /\ procs' = [procs EXCEPT ![p] =
              [l EXCEPT !.response_data = Some(Compose(l.page[1], posts)),
                        !.reads = @ + 1, !.pc = "gp_set"]]
        /\ UNCHANGED <<client, up, cache, posts, employees, now, pre, nreq, ups>>

\* get_page, lines 115-134: count and read the page's posts, compose.
GetPageCompose(p) ==
    LET l == procs[p]
    IN  /\ l.pc = "gp_compose"
        /\ procs' = [procs EXCEPT ![p] =
              [l EXCEPT !.response_data = Some(Compose(l.page[1], posts)),
                        !.reads = @ + 1, !.pc = "gp_set"]]
        /\ UNCHANGED <<client, up, cache, pages, posts, employees, now, pre, nreq, ups>>

\* get_page, lines 136-139: cache the composed response and return it.
GetPageSet(p) ==
    LET l == procs[p]
        key == PageDetailKey(l.pid)
    IN  /\ l.pc = "gp_set"
        /\ ~Raises
        /\ cache' = CacheSet(cache, key, ToJson(l.response_data[1]), 0)
        /\ pre' = Touch(IF client THEN {key} ELSE {})
        /\ procs' = [procs EXCEPT ![p] =
              Return(l, "ok", Some(PageDetailResponse(l.response_data[1])))]
        /\ UNCHANGED <<client, up, pages, posts, employees, now, nreq, ups>>

\* Time passes; Redis drops the entries whose TTL has lapsed.
Tick ==
    /\ now + CACHE_TTL <= MaxTime
    /\ now' = now + CACHE_TTL
    /\ cache' = [k \in AllKeys |->
                    IF Live(cache, k, now + CACHE_TTL) THEN cache[k] ELSE None]
    /\ UNCHANGED <<client, up, pages, posts, employees, procs, pre, nreq, ups>>

Next ==
    \/ \E p \in Procs, pid \in PageIds, fim \in BOOLEAN : StartGetPage(p, pid, fim)
    \/ \E p \in Procs, pid \in PageIds : StartRefresh(p, pid)
    \/ \E p \in Procs : GetPageCache(p)
    \/ \E p \in Procs : GetPageDb(p)
    \/ \E p \in Procs : RefreshClear(p)
    \/ \E p \in Procs : FsExist(p)
    \/ \E p \in Procs : LiCache(p)
    \/ \E p \in Procs : LiHttp(p)
    \/ \E p \in Procs : FsCommit(p)
    \/ \E p \in Procs : FsPosts(p)
    \/ \E p \in Procs : FsEmployees(p)
    \/ \E p \in Procs : GetPageCompose(p)
    \/ \E p \in Procs : GetPageSet(p)
    \/ Tick

Spec == Init /\ [][Next]_vars

\* The connection to Redis is lost after a successful initialize.
Disconnect ==
    /\ client
    /\ up
    /\ up' = FALSE
    /\ UNCHANGED <<client, cache, pages, posts, employees, now, procs, pre, nreq, ups>>

\* The handler positions whose next statement is a cache command.  At
\* li_http it is the set of lines 64-65, after the provider has answered.
CacheSteps ==
    {"gp_cache", "rf_clear", "li_cache", "li_http", "fs_posts",
     "fs_employees", "gp_set"}

\* The cache command raises; nothing catches the exception and the request
\* ends with a server error.
CacheRaise(p) ==
    LET l == procs[p]
        m == [l EXCEPT !.upCalls = IF l.pc = "li_http" THEN @ + 1 ELSE @]
    IN  /\ Raises
        /\ l.pc \in CacheSteps
        /\ procs' = [procs EXCEPT ![p] = Return(m, "500", None)]
        /\ UNCHANGED <<client, up, cache, pages, posts, employees, now, pre, nreq, ups>>

\* The same handlers with a Redis connection that can be lost.
NextOutage ==
    \/ \E p \in Procs, pid \in PageIds, fim \in BOOLEAN : StartGetPage(p, pid, fim)
    \/ \E p \in Procs, pid \in PageIds : StartRefresh(p, pid)
    \/ \E p \in Procs : GetPageCache(p)
    \/ \E p \in Procs : GetPageDb(p)
    \/ \E p \in Procs : RefreshClear(p)
    \/ \E p \in Procs : FsExist(p)
    \/ \E p \in Procs : LiCache(p)
    \/ \E p \in Procs : LiHttp(p)
    \/ \E p \in Procs : FsCommit(p)
    \/ \E p \in Procs : FsPosts(p)
    \/ \E p \in Procs : FsEmployees(p)
    \/ \E p \in Procs : GetPageCompose(p)
    \/ \E p \in Procs : GetPageSet(p)
    \/ \E p \in Procs : CacheRaise(p)
    \/ Disconnect
    \/ Tick

SpecOutage == Init /\ [][NextOutage]_vars

\* The same handlers against a provider that may answer with another
\* vanity name.
NextAlias ==
    \/ \E p \in Procs, pid \in PageIds, fim \in BOOLEAN : StartGetPage(p, pid, fim)
    \/ \E p \in Procs, pid \in PageIds : StartRefresh(p, pid)
    \/ \E p \in Procs : GetPageCache(p)
    \/ \E p \in Procs : GetPageDb(p)
    \/ \E p \in Procs : RefreshClear(p)
    \/ \E p \in Procs : FsExist(p)
    \/ \E p \in Procs : LiCache(p)
    \/ \E p \in Procs : LiHttpAlias(p)
    \/ \E p \in Procs : FsCommit(p)
    \/ \E p \in Procs : FsPosts(p)
    \/ \E p \in Procs : FsEmployees(p)
    \/ \E p \in Procs : GetPageCompose(p)
    \/ \E p \in Procs : GetPageSet(p)
    \/ Tick

SpecAlias == Init /\ [][NextAlias]_vars

-----------------------------------------------------------------------------
(* The store writes of the pipeline, applied on their own *)

MaxApply == 2

Stored == [pages |-> pages, posts |-> posts, employees |-> employees]

\* _fetch_and_store_page with force_update, lines 283-285 and 302-337: look
\* the page up, then update it or create it from the record.
WritePage(pgs, pid, data, s3, t) ==
    StorePage(pgs, PageBy(pgs, pid), pid, data, s3, t)

\* A record of page pid is written for the first time.
UpsertPage(pid, data, s3) ==
    LET w == WritePage(pages, pid, data, s3, now)
    IN  /\ ups.n = 0
        /\ w.ok
        /\ pages' = w.pages
        /\ ups' = [NoUpsert EXCEPT
                     !.kind = "page", !.n = 1, !.pid = pid,
                     !.page_data = Some(data), !.s3 = s3,
                     !.snap = [Stored EXCEPT !.pages = w.pages]]
        /\ UNCHANGED <<client, up, cache, posts, employees, now, procs, pre, nreq>>

\* The posts of a stored page are written for the first time.
UpsertPosts(page, data, s3s) ==
    LET w == StorePosts(posts, page, data, s3s)
    IN  /\ ups.n = 0
        /\ data # <<>>
        /\ w.ok
        /\ posts' = w.posts
        /\ ups' = [NoUpsert EXCEPT
                     !.kind = "post", !.n = 1, !.page = Some(page),
                     !.list = data, !.s3s = s3s,
                     !.snap = [Stored EXCEPT !.posts = w.posts]]
        /\ UNCHANGED <<client, up, cache, pages, employees, now, procs, pre, nreq>>

\* The employees of a stored page are written for the first time.
UpsertEmployees(page, data) ==
    LET w == StoreEmployees(employees, page, data)
    IN  /\ ups.n = 0
        /\ data # <<>>
        /\ w.ok
        /\ employees' = w.employees
        /\ ups' = [NoUpsert EXCEPT
                     !.kind = "employee", !.n = 1, !.page = Some(page),
                     !.list = data,
                     !.snap = [Stored EXCEPT !.employees = w.employees]]
        /\ UNCHANGED <<client, up, cache, pages, posts, now, procs, pre, nreq>>

\* The record written last is written once more, by the same code.
UpsertAgain ==
    /\ ups.n >= 1
    /\ ups.n < MaxApply
    /\ \/ /\ ups.kind = "page"
          /\ LET w == WritePage(pages, ups.pid, ups.page_data[1], ups.s3, now)
             IN  /\ pages' = w.pages
                 /\ ups' = [ups EXCEPT !.n = @ + 1, !.ok = w.ok]
          /\ UNCHANGED <<posts, employees>>
       \/ /\ ups.kind = "post"
          /\ LET w == StorePosts(posts, ups.page[1], ups.list, ups.s3s)
             IN  /\ posts' = w.posts
                 /\ ups' = [ups EXCEPT !.n = @ + 1, !.ok = w.ok]
          /\ UNCHANGED <<pages, employees>>
       \/ /\ ups.kind = "employee"
          /\ LET w == StoreEmployees(employees, ups.page[1], ups.list)
             IN  /\ employees' = w.employees
                 /\ ups' = [ups EXCEPT !.n = @ + 1, !.ok = w.ok]
          /\ UNCHANGED <<pages, posts>>
    /\ UNCHANGED <<client, up, cache, now, procs, pre, nreq>>

\* Another record is taken up.
UpsertDone ==
    /\ ups.n >= 1
    /\ ups' = NoUpsert
    /\ UNCHANGED <<client, up, cache, pages, posts, employees, now, procs, pre, nreq>>

NextUpsert ==
    \/ \E pid \in PageIds : \E data \in OrgRecords(pid) :
          \E s3 \in ClonePageOutcomes(data.profile_picture_url) :
             UpsertPage(pid, data, s3)
    \/ \E page \in pages : \E data \in FetchPostsOutcomes(page.linkedin_id) :
          \E s3s \in ClonePostsOutcomes(data) : UpsertPosts(page, data, s3s)
    \/ \E page \in pages : \E data \in FetchEmployeesOutcomes(page.linkedin_id) :
          UpsertEmployees(page, data)
    \/ UpsertAgain
    \/ UpsertDone
    \/ Tick

SpecUpsert == Init /\ [][NextUpsert]_vars


-----------------------------------------------------------------------------
(* Properties *)

Running(p) == procs[p].pc \notin {"idle", "done"}

\* Request p takes a step of its handler.
Step(p) == Running(p) /\ procs'[p] # procs[p]

RowsOf(pgs, pid) == { r \in pgs : r.page_id = pid }

\* C1: a page-detail request for a pid that is not in the store, allowed to
\* fetch, for which the provider returns a record: when its pipeline writes,
\* the store gains exactly one new Page row for pid, with last_scraped_at set;
\* the request then succeeds and, with the cache reachable, its composed
\* response is the entry under page_detail:pid when it returns.
C1_FetchOnMissStoresAndCaches ==
    [][\A p \in Procs :
        LET l == procs[p]
            n == procs'[p]
            key == PageDetailKey(l.pid)
        IN  /\ (Step(p) /\ l.op = "get_page" /\ l.pc = "fs_commit"
                  /\ PageBy(pages, l.pid) = None)
               => /\ n.created
                  /\ pages \subseteq pages'
                  /\ pages' \ pages = RowsOf(pages', l.pid)
                  /\ Cardinality(RowsOf(pages', l.pid)) = 1
                  /\ \A r \in RowsOf(pages', l.pid) : r.last_scraped_at = now
                  /\ now # NoTime
            /\ (Step(p) /\ l.op = "get_page" /\ l.created /\ n.pc = "done")
               => /\ n.result = "ok"
                  /\ l.pc = "gp_set"
                  /\ l.response_data[1].page_id = l.pid
                  /\ n.resp = Some(PageDetailResponse(l.response_data[1]))
                  /\ client =>
                       /\ Live(cache', key, now')
                       /\ cache'[key][1].val = ToJson(l.response_data[1])
      ]_vars

C1_Witness ==
    \E p \in Procs :
        /\ procs[p].op = "get_page" /\ procs[p].pc = "done"
        /\ procs[p].created /\ procs[p].result = "ok"
        /\ client /\ Live(cache, PageDetailKey(procs[p].pid), now)
        /\ \E r \in pages :
              r.page_id = procs[p].pid /\ r.last_scraped_at # NoTime

\* C2: while the cache holds an unexpired entry under page_detail:pid, a
\* page-detail request for pid returns that entry as its response and makes
\* no store lookup and no upstream call.
C2_CacheHitServedVerbatim ==
    [][\A p \in Procs :
        LET l == procs[p]
            n == procs'[p]
            key == PageDetailKey(l.pid)
        IN  (Step(p) /\ l.op = "get_page" /\ l.pc = "gp_cache"
               /\ client /\ Live(cache, key, now))
            => /\ n.pc = "done" /\ n.result = "ok"
               /\ n.resp = Some(PageDetailResponse(cache[key][1].val))
               /\ n.reads = 0 /\ n.upCalls = 0 /\ n.clones = 0
               /\ UNCHANGED <<cache, pages, posts, employees>>
      ]_vars

C2_Witness ==
    \E p \in Procs :
        /\ procs[p].op = "get_page" /\ procs[p].pc = "done"
        /\ procs[p].hit /\ procs[p].result = "ok"
        /\ procs[p].resp # None /\ procs[p].resp[1].page_id = procs[p].pid

\* C3: a page-detail request with fetch_if_missing = false that finds pid
\* neither in the cache nor in the store answers not-found, makes no upstream
\* call and leaves store and cache as they are.
C3_NoFetchWhenDisallowed ==
    [][\A p \in Procs :
        LET l == procs[p]
            n == procs'[p]
        IN  /\ (Step(p) /\ l.op = "get_page" /\ ~l.fetch_if_missing
                  /\ l.pc = "gp_cache" /\ CacheGet(PageDetailKey(l.pid)) = None)
               => /\ n.pc = "gp_db" /\ n.upCalls = 0
                  /\ UNCHANGED <<cache, pages, posts, employees>>
            /\ (Step(p) /\ l.op = "get_page" /\ ~l.fetch_if_missing
                  /\ l.pc = "gp_db" /\ PageBy(pages, l.pid) = None)
               => /\ n.pc = "done" /\ n.result = "404" /\ n.resp = None
                  /\ n.upCalls = 0 /\ n.clones = 0
                  /\ UNCHANGED <<cache, pages, posts, employees>>
      ]_vars

C3_Witness ==
    \E p \in Procs :
        /\ procs[p].op = "get_page" /\ procs[p].pc = "done"
        /\ ~procs[p].fetch_if_missing /\ procs[p].result = "404"
        /\ procs[p].reads = 1 /\ PageBy(pages, procs[p].pid) = None

\* C4: a page-detail request for a pid that is in the store when it arrives
\* never calls the provider or the media cloner, whatever fetch_if_missing
\* is, and none of its steps changes a stored Page.
C4_StoredPageSkipsFetch ==
    [][\A p \in Procs :
        LET l == procs[p]
            n == procs'[p]
        IN  (Step(p) /\ l.op = "get_page" /\ l.had)
            => /\ pages' = pages
               /\ n.upCalls = 0 /\ n.clones = 0
               /\ n.pc \notin {"li_cache", "li_http", "fs_commit"}
      ]_vars

C4_Witness ==
    \E p \in Procs :
        /\ procs[p].op = "get_page" /\ procs[p].pc = "done"
        /\ procs[p].had /\ procs[p].fetch_if_missing /\ ~procs[p].hit
        /\ procs[p].result = "ok" /\ procs[p].reads = 2


\* C5: the refresh deletes every entry whose key contains the page's
\* identifier before it asks the provider, and when a refresh ends not-found
\* the composed response of pid that was cached when it began is not served
\* any more.
C5_FailedRefreshLeavesNoStaleEntry ==
    [][\A p \in Procs :
        LET l == procs[p]
            n == procs'[p]
            key == PageDetailKey(l.pid)
        IN  /\ (Step(p) /\ l.op = "refresh" /\ l.pc \in {"li_cache", "li_http"})
               => \A k \in AllKeys :
                     (GlobContains(l.pid, k) /\ k \in pre[p])
                        => ~Live(cache, k, now)
            /\ (Step(p) /\ l.op = "refresh" /\ n.pc = "done"
                  /\ n.result = "404")
               => /\ l.pc = "li_http"
                  /\ key \in pre'[p] => ~Live(cache', key, now')
      ]_vars

C5_Witness ==
    \E p \in Procs :
        /\ procs[p].op = "refresh" /\ procs[p].pc = "done"
        /\ procs[p].result = "404" /\ procs[p].stale
        /\ procs[p].upCalls = 1

\* C6: when fetch_page returns absent the pipeline ends not-found, and up to
\* that point it has written nothing to the store: no Page is created and a
\* stored Page keeps every field, last_scraped_at included.
C6_AbsentFetchLeavesStore ==
    [][\A p \in Procs :
        LET l == procs[p]
            n == procs'[p]
        IN  /\ (Step(p)
                  /\ l.pc \in {"rf_clear", "fs_exist", "li_cache", "li_http"})
               => UNCHANGED <<pages, posts, employees>>
            /\ (Step(p) /\ l.pc = "li_http" /\ n.pc # "fs_commit")
               => /\ n.pc = "done" /\ n.result = "404" /\ n.resp = None
                  /\ n.clones = 0
      ]_vars

C6_Witness ==
    \E p \in Procs :
        /\ procs[p].op = "refresh" /\ procs[p].pc = "done"
        /\ procs[p].result = "404" /\ procs[p].had
        /\ \E r \in pages : r.page_id = procs[p].pid /\ r.last_scraped_at = 0
        /\ now > 0

\* C7: a refresh of a stored Page whose follower_count differs from the one
\* the provider returns stores the provider's value, and the entries of the
\* page's own keys that were cached when the refresh began are gone.
C7_RefreshUpdatesFollowerCount ==
    [][\A p \in Procs :
        LET l == procs[p]
            n == procs'[p]
            id == l.existing_page[1].id
            data == l.linkedin_data[1]
        IN  (Step(p) /\ l.op = "refresh" /\ l.pc = "fs_commit"
               /\ l.existing_page # None
               /\ PageById(pages, id).follower_count # data.follower_count)
            => /\ n.pc = "done" /\ n.result = "ok"
               /\ PageById(pages', id).follower_count = data.follower_count
               /\ n.resp[1].follower_count = data.follower_count
               /\ \A k \in OwnKeys(l.pid) :
                     k \in pre'[p] => ~Live(cache', k, now')
      ]_vars

C7_Witness ==
    \E p \in Procs :
        /\ procs[p].op = "refresh" /\ procs[p].pc = "done"
        /\ procs[p].result = "ok" /\ procs[p].stale
        /\ procs[p].before # None
        /\ procs[p].before[1].follower_count = 100
        /\ procs[p].resp[1].follower_count = 150
        /\ \E r \in pages :
              r.page_id = procs[p].pid /\ r.follower_count = 150

C9_ConcurrentMissesBothSucceed ==
    \A p, q \in Procs :
        (/\ p # q
         /\ procs[p].op = "get_page" /\ procs[q].op = "get_page"
         /\ procs[p].pid = procs[q].pid
         /\ procs[p].pc = "done" /\ procs[q].pc = "done"
         /\ ~procs[p].had /\ ~procs[q].had
         /\ procs[p].clones = 1 /\ procs[q].clones = 1)
        => /\ procs[p].result = "ok" /\ procs[q].result = "ok"
           /\ Cardinality(RowsOf(pages, procs[p].pid)) = 1


\* The store without the times of synchronisation.
Untimed(st) ==
    [st EXCEPT !.pages = { [r EXCEPT !.last_scraped_at = 0] : r \in @ }]

\* C10 as stated: writing the same normalized record a second time, whatever
\* its kind, commits without an error and leaves the store as the first
\* write left it (the time of synchronisation apart).
C10_UpsertIdempotent ==
    ups.n >= 2 => (ups.ok /\ Untimed(Stored) = Untimed(ups.snap))


\* C11 as stated: when the pipeline updates a stored Page, each field takes
\* the incoming value when that value is non-null and keeps the stored value
\* otherwise; in particular a stored cloned picture URL is kept when the
\* sync brings no cloned URL.
C11_UpdateOverwritesOnlyNonNull ==
    [][\A p \in Procs :
        LET l == procs[p]
            n == procs'[p]
            id == l.existing_page[1].id
            data == l.linkedin_data[1]
            old == PageById(pages, id)
            new == PageById(pages', id)
        IN  (Step(p) /\ l.pc = "fs_commit" /\ l.existing_page # None
               /\ n.result = "ok")
            => /\ new.linkedin_id = data.linkedin_id
               /\ new.follower_count = data.follower_count
               /\ new.profile_picture_url =
                     IF data.profile_picture_url # NullStr
                     THEN data.profile_picture_url
                     ELSE old.profile_picture_url
               /\ old.profile_picture_s3_url # NullStr
                     => new.profile_picture_s3_url # NullStr
      ]_vars


\* C12 as stated: no step changes the page_id of a stored Page row, whatever
\* vanity name the provider's record carries.
C12_PageIdImmutable ==
    [][\A r \in pages :
          \E q \in pages' : q.id = r.id /\ q.page_id = r.page_id]_vars

\* C13: in every reachable state no two Page rows have the same page_id and
\* no two have the same linkedin_id, under any interleaving of detail
\* requests and refreshes and whatever name the provider answers with.
C13_PageKeysUnique ==
    \A r1, r2 \in pages :
        r1 # r2 => (r1.page_id # r2.page_id /\ r1.linkedin_id # r2.linkedin_id)

\* A write that would have duplicated a key was refused, and two pages are
\* stored.
C13_Witness ==
    /\ Cardinality(pages) = 2
    /\ \E p \in Procs :
          /\ procs[p].pc = "done" /\ procs[p].result = "500"
          /\ procs[p].clones = 1


\* C14: a step gives a Page a last_scraped_at (a new row, or another value
\* on a stored row) only if it is the write step of a pipeline run for that
\* page that holds the provider's record and commits; and every such step
\* sets the page's last_scraped_at to the current time.
C14_StampOnlyOnSync ==
    [][/\ \A r \in pages' :
            ((\A o \in pages : o.id # r.id)
               \/ \E o \in pages :
                     o.id = r.id /\ o.last_scraped_at # r.last_scraped_at)
            => \E p \in Procs :
                  /\ Step(p) /\ procs[p].pc = "fs_commit"
                  /\ procs[p].linkedin_data # None
                  /\ procs'[p].result # "500"
                  /\ r.page_id = procs[p].pid
                  /\ r.last_scraped_at = now
       /\ \A p \in Procs :
            (Step(p) /\ procs[p].pc = "fs_commit"
               /\ procs'[p].result # "500")
            => \E r \in pages' :
                  /\ r.page_id = procs[p].pid
                  /\ r.last_scraped_at = now
      ]_vars

\* A refresh has moved the stamp of a stored page forward.
C14_Witness ==
    \E p \in Procs :
        /\ procs[p].op = "refresh" /\ procs[p].pc = "done"
        /\ procs[p].result = "ok"
        /\ procs[p].before # None
        /\ procs[p].before[1].last_scraped_at = 0
        /\ \E r \in pages :
              r.page_id = procs[p].pid /\ r.last_scraped_at = CACHE_TTL


\* C15: a refresh of a page that was stored when the refresh arrived changes
\* neither the stored posts nor the stored employees and asks the provider
\* for neither (its only provider call is the page lookup); the steps that
\* fetch and store posts and employees are taken only by a pipeline run that
\* has just created the page.
C15_RefreshDoesNotCascade ==
    [][\A p \in Procs :
        LET l == procs[p]
            n == procs'[p]
        IN  /\ (Step(p) /\ l.op = "refresh" /\ l.had)
               => /\ UNCHANGED <<posts, employees>>
                  /\ n.pc \notin {"fs_posts", "fs_employees"}
                  /\ n.upCalls <= 1
            /\ (Step(p) /\ (posts' # posts \/ employees' # employees
                               \/ l.pc \in {"fs_posts", "fs_employees"}))
               => l.created /\ ~l.had
      ]_vars

\* A refresh of a stored page has succeeded.
C15_Witness ==
    \E p \in Procs :
        /\ procs[p].op = "refresh" /\ procs[p].pc = "done"
        /\ procs[p].result = "ok" /\ procs[p].had
        /\ procs[p].upCalls = 1 /\ procs[p].clones = 1
        /\ posts # {} /\ employees # {}


\* C16 as stated: when a page was stored without its posts and employees
\* (the cascade failed after the page was committed), a later detail request
\* or refresh of the same page that succeeds leaves the page with its posts
\* and employees stored.  Stated for the moment no other request is running.
C16_PartialCascadeHeals ==
    \A p \in Procs :
        (/\ procs[p].pc = "done" /\ procs[p].op \in {"get_page", "refresh"}
         /\ procs[p].result = "ok" /\ procs[p].had
         /\ \A q \in Procs : ~Running(q))
        => \A r \in RowsOf(pages, procs[p].pid) :
              /\ \E x \in posts : x.page_id = r.id
              /\ \E e \in employees : e.page_id = r.id


\* C17 as stated: while the cache cannot be reached (no client, or the
\* connection of the client is lost) no request fails at a cache command:
\* the step goes on as on a cache miss.  The two steps that also commit to
\* the store are left out, so that a server error here is the cache's.
C17_CacheOutageDegrades ==
    [][\A p \in Procs :
        (Step(p) /\ (~client \/ ~up) /\ procs[p].pc \in CacheSteps
           /\ procs[p].pc \notin {"fs_posts", "fs_employees"})
        => procs'[p].result # "500"
      ]_vars


\* C18: a provider call that brings nothing back never ends the request
\* with a server error.  A page lookup without a record ends it not-found;
\* a posts or employees fetch that stores nothing lets the pipeline go on;
\* and a request that has created its page ends successfully.
C18_UpstreamFailureNotRaised ==
    [][\A p \in Procs :
        LET l == procs[p]
            n == procs'[p]
            asked == n.upCalls > l.upCalls
        IN  /\ (Step(p) /\ l.pc = "li_http")
               => /\ asked
                  /\ n.result \in {"none", "404"}
                  /\ n.linkedin_data = None
                        => (n.pc = "done" /\ n.result = "404"
                              /\ n.resp = None)
            /\ (Step(p) /\ l.pc = "fs_posts" /\ asked /\ posts' = posts)
               => n.pc = "fs_employees" /\ n.result = "none"
            /\ (Step(p) /\ l.pc = "fs_employees" /\ asked
                  /\ employees' = employees)
               => n.result \in {"none", "ok"}
            /\ (Step(p) /\ l.created /\ n.pc = "done") => n.result = "ok"
      ]_vars

\* A request has created its page while both fetches of the cascade failed.
C18_Witness ==
    \E p \in Procs :
        /\ procs[p].pc = "done" /\ procs[p].result = "ok"
        /\ procs[p].created /\ procs[p].upCalls = 3
        /\ \E r \in RowsOf(pages, procs[p].pid) :
              /\ \A x \in posts : x.page_id # r.id
              /\ \A e \in employees : e.page_id # r.id


\* C19: whatever the cloning returns, the write of a Page that breaks no
\* unique key and the write of its Posts commit; the rows keep the original
\* URL, and a row without a cloned URL is shown with its original URL by
\* to_dict, by the composed response and by the refresh response.
C19_CloneFailureDoesNotBlock ==
    [][\A p \in Procs :
        LET l == procs[p]
            n == procs'[p]
        IN  /\ (Step(p) /\ l.pc = "fs_commit"
                  /\ (l.existing_page # None \/ PageBy(pages, l.pid) = None))
               => /\ n.result # "500"
                  /\ \E r \in RowsOf(pages', l.pid) :
                        /\ l.linkedin_data[1].profile_picture_url # NullStr
                              => r.profile_picture_url
                                    = l.linkedin_data[1].profile_picture_url
                        /\ r.profile_picture_s3_url = NullStr
                              => PageToDict(r).profile_picture_url
                                    = r.profile_picture_url
                        /\ n.pc = "done"
                              => n.resp[1].profile_picture_url
                                    = r.profile_picture_url
            /\ (Step(p) /\ l.pc = "fs_posts")
               => /\ n.result # "500"
                  /\ \A x \in posts' \ posts :
                        x.media_s3_url = NullStr
                           => PostToDict(x).media_url = x.media_url
            /\ (Step(p) /\ l.pc = "gp_compose"
                  /\ l.page[1].profile_picture_s3_url = NullStr)
               => n.response_data[1].profile_picture_url
                     = l.page[1].profile_picture_url
      ]_vars

\* A page with a logo and a post with media are stored without cloned URLs,
\* and the request that created the page returned the original logo URL.
C19_Witness ==
    /\ \E p \in Procs :
          /\ procs[p].op = "get_page" /\ procs[p].pc = "done"
          /\ procs[p].result = "ok" /\ procs[p].created
          /\ procs[p].resp[1].profile_picture_url = "pic"
          /\ \E r \in RowsOf(pages, procs[p].pid) :
                r.profile_picture_url = "pic"
                   /\ r.profile_picture_s3_url = NullStr
    /\ \E x \in posts : x.media_url = "m2" /\ x.media_s3_url = NullStr


\* C20 as stated: a fetch_page(v) made by a request that arrived while the
\* raw-response cache held a payload for v, and before that entry's TTL has
\* lapsed, does not come back absent: with the provider down it is answered
\* with the cached payload, a refresh of v notwithstanding.
C20_RawCacheSurvivesRefresh ==
    [][\A p \in Procs :
        LET l == procs[p]
            n == procs'[p]
        IN  (Step(p) /\ l.pc \in {"li_cache", "li_http"}
               /\ l.raw # None /\ now < l.raw[1].exp)
            => ~(n.pc = "done" /\ n.result = "404")
      ]_vars

-----------------------------------------------------------------------------
(* The listing routes: get_pages, get_page_posts and get_page_followers of *)
(* app/api/v1/pages.py, get_posts and get_post of app/api/v1/posts.py.     *)
(* They only read the store; they are checked against a store that no      *)
(* request is writing, so each listing is one step.                        *)

MaxPage == 3
MaxPageSize == 2

\* The second page as the pipeline stores it, with its post and employee.
SeedPage2 ==
    NewPage(2, <<"a", "b", "c">>,
            [linkedin_id |-> OrgIdOf(<<"a", "b", "c">>),
             page_id |-> <<"a", "b", "c">>,
             follower_count |-> 100, profile_picture_url |-> NullStr,
             industry |-> NullStr, description |-> NullStr],
            NullStr, 0)

\* The stores the pipeline leaves behind: none, one or both pages synced.
\* The first page has its picture cloned, the second has its post's media
\* cloned.
ListingStores ==
    LET st1 == CHOOSE st \in Stores : st.pages # {}
    IN  Stores \cup
        { [pages |-> st1.pages \cup {SeedPage2},
           posts |-> StorePosts(st1.posts, SeedPage2,
                                PostsOf(SeedPage2.linkedin_id),
                                <<"s3/post_media">>).posts,
           employees |-> StoreEmployees(st1.employees, SeedPage2,
                             EmployeesOf(SeedPage2.linkedin_id)).employees] }

InitListing ==
    /\ client \in BOOLEAN
    /\ up = TRUE
    /\ cache = [k \in AllKeys |-> None]
    /\ \E st \in ListingStores :
          /\ pages = st.pages
          /\ posts = st.posts
          /\ employees = st.employees
    /\ now = 0
    /\ procs = [p \in Procs |-> Idle]
    /\ pre = [p \in Procs |-> {}]
    /\ nreq = 0
    /\ ups = NoUpsert

\* ORDER BY follower_count DESC over a set of page rows.
RECURSIVE PagesByFollowers(_)
PagesByFollowers(rows) ==
    IF rows = {} THEN <<>>
    ELSE LET top == CHOOSE r \in rows :
                        \A q \in rows : q.follower_count <= r.follower_count
         IN  <<top>> \o PagesByFollowers(rows \ {top})

\* ORDER BY posted_at DESC over a set of post rows.
RECURSIVE PostsByDate(_)
PostsByDate(rows) ==
    IF rows = {} THEN <<>>
    ELSE LET top == CHOOSE r \in rows : \A q \in rows : q.posted_at <= r.posted_at
         IN  <<top>> \o PostsByDate(rows \ {top})

\* The rows of a set, in the order the store returns them without ORDER BY.
RECURSIVE RowsById(_)
RowsById(rows) ==
    IF rows = {} THEN <<>>
    ELSE LET first == CHOOSE r \in rows : \A q \in rows : r.id <= q.id
         IN  <<first>> \o RowsById(rows \ {first})

\* OFFSET offset LIMIT limit
Slice(seq, offset, limit) ==
    SubSeq(seq, offset + 1,
           IF offset + limit < Len(seq) THEN offset + limit ELSE Len(seq))

\* Mutant of TotalPages: the quotient is rounded down.
TotalPagesFloor(total, page_size) == total \div page_size

\* total_pages = (total + page_size - 1) // page_size
TotalPages(total, page_size) == (total + page_size - 1) \div page_size

\* PostResponse.model_validate(post): read from the row's attributes.
PostResponse(row) ==
    [id |-> row.id, post_id |-> row.post_id, page_id |-> row.page_id,
     media_url |-> row.media_url,
     like_count |-> row.like_count, comment_count |-> row.comment_count,
     posted_at |-> row.posted_at]

\* Employee.to_dict
EmployeeToDict(row) ==
    [id |-> row.id, linkedin_id |-> row.linkedin_id, page_id |-> row.page_id,
     first_name |-> row.first_name, is_following |-> row.is_following,
     is_follower |-> row.is_follower, is_employee |-> row.is_employee]

\* A listing request is answered in one step by the lowest free worker.
Answer(p, op, pid, reads, result, resp) ==
    /\ Free(p)
    /\ nreq' = nreq + 1
    /\ procs' = [procs EXCEPT ![p] =
          Return([Idle EXCEPT !.op = op, !.pid = pid, !.reads = reads,
                              !.had = PageBy(pages, pid) # None],
                 result, resp)]
    /\ pre' = [pre EXCEPT ![p] = {}]
    /\ UNCHANGED <<client, up, cache, pages, posts, employees, now, ups>>

\* get_pages, lines 44-82, with the min_followers filter given or not.
GetPages(p, page, page_size, min_followers) ==
    LET sel == { r \in pages :
                   min_followers = None \/ r.follower_count >= min_followers[1] }
        total == Cardinality(sel)
        total_pages == TotalPages(total, page_size)
        rows == Slice(PagesByFollowers(sel), (page - 1) * page_size, page_size)
    IN  Answer(p, "get_pages", <<"a", "b">>, 2, "ok",
               Some([items |-> [i \in 1..Len(rows) |-> PageResponse(rows[i])],
                     total |-> total, page |-> page, page_size |-> page_size,
                     total_pages |-> total_pages,
                     has_next |-> page < total_pages,
                     has_prev |-> page > 1]))

\* get_posts, lines 29-69, with the page_id filter given or not: the filter
\* is applied when the page is found (line 37).
GetPosts(p, page, page_size, page_id) ==
    LET db_page == IF page_id = None THEN None ELSE PageBy(pages, page_id[1])
        sel == { r \in posts : db_page = None \/ r.page_id = db_page[1].id }
        total == Cardinality(sel)
        total_pages == TotalPages(total, page_size)
        rows == Slice(PostsByDate(sel), (page - 1) * page_size, page_size)
    IN  Answer(p, "get_posts",
               IF page_id = None THEN <<"a", "b">> ELSE page_id[1],
               IF page_id = None THEN 2 ELSE 3, "ok",
               Some([items |-> [i \in 1..Len(rows) |-> PostResponse(rows[i])],
                     total |-> total, page |-> page, page_size |-> page_size,
                     total_pages |-> total_pages,
                     has_next |-> page < total_pages,
                     has_prev |-> page > 1]))

\* Mutant of GetPagePosts: a page that is not stored is fetched and stored
\* before its posts are listed.
GetPagePostsFetching(p, page_id, page, page_size) ==
    LET db_page == PageBy(pages, page_id)
        data == CHOOSE r \in OrgRecords(page_id) : TRUE
        w == StorePage(pages, None, page_id, data, NullStr, now)
        sel == { r \in posts : r.page_id = db_page[1].id }
        total == Cardinality(sel)
        total_pages == TotalPages(total, page_size)
        rows == Slice(PostsByDate(sel), (page - 1) * page_size, page_size)
    IN  /\ Free(p)
        /\ nreq' = nreq + 1
        /\ pages' = IF db_page = None THEN w.pages ELSE pages
        /\ procs' = [procs EXCEPT ![p] =
              Return([Idle EXCEPT !.op = "get_page_posts", !.pid = page_id,
                                  !.had = db_page # None,
                                  !.upCalls = IF db_page = None THEN 1 ELSE 0],
                     "ok",
                     Some([items |->
                              IF db_page = None THEN <<>>
                              ELSE [i \in 1..Len(rows) |-> PostToDict(rows[i])],
                           total |-> IF db_page = None THEN 0 ELSE total,
                           page |-> page, page_size |-> page_size,
                           total_pages |->
                              IF db_page = None THEN 0 ELSE total_pages,
                           has_next |-> db_page # None /\ page < total_pages,
                           has_prev |-> page > 1]))]
        /\ pre' = [pre EXCEPT ![p] = {}]
        /\ UNCHANGED <<client, up, cache, posts, employees, now, ups>>

\* get_page_posts, lines 174-210.
GetPagePosts(p, page_id, page, page_size) ==
    LET db_page == PageBy(pages, page_id)
        sel == { r \in posts : r.page_id = db_page[1].id }
        total == Cardinality(sel)
        total_pages == TotalPages(total, page_size)
        rows == Slice(PostsByDate(sel), (page - 1) * page_size, page_size)
    IN  IF db_page = None
        THEN Answer(p, "get_page_posts", page_id, 1, "404", None)
        ELSE Answer(p, "get_page_posts", page_id, 3, "ok",
               Some([items |-> [i \in 1..Len(rows) |-> PostToDict(rows[i])],
                     total |-> total, page |-> page, page_size |-> page_size,
                     total_pages |-> total_pages,
                     has_next |-> page < total_pages,
                     has_prev |-> page > 1]))

\* get_page_followers, lines 223-273.
GetPageFollowers(p, page_id, page, page_size) ==
    LET db_page == PageBy(pages, page_id)
        mine == { r \in employees : r.page_id = db_page[1].id }
        followers == { r \in mine : r.is_follower }
        following == { r \in mine : r.is_following }
        offset == (page - 1) * page_size
        a == Slice(RowsById(followers), offset, page_size)
        b == Slice(RowsById(following), offset, page_size)
    IN  IF db_page = None
        THEN Answer(p, "get_page_followers", page_id, 1, "404", None)
        ELSE Answer(p, "get_page_followers", page_id, 5, "ok",
               Some([followers |-> [i \in 1..Len(a) |-> EmployeeToDict(a[i])],
                     following |-> [i \in 1..Len(b) |-> EmployeeToDict(b[i])],
                     total_followers |-> Cardinality(followers),
                     total_following |-> Cardinality(following),
                     page |-> page, page_size |-> page_size]))

\* json.loads(json.dumps(post.to_dict() + comments, default=str))
PostToJson(d) ==
    [d EXCEPT !.posted_at = DateStr(@),
              !.comments =
                  [i \in 1..Len(@) |-> [@[i] EXCEPT !.commented_at = DateStr(@)]]]

\* PostDetailResponse(**d): posted_at is a datetime field.
PostDetailResponse(d) == [d EXCEPT !.posted_at = ParseDate(@)]

\* GET /posts/{post_id} arrives.
StartGetPost(p, post_id, include_comments) ==
    /\ Free(p)
    /\ nreq' = nreq + 1
    /\ procs' = [procs EXCEPT ![p] =
                    [Idle EXCEPT !.op = "get_post", !.pc = "po_cache",
                                 !.post_id = post_id,
                                 !.include_comments = include_comments]]
    /\ pre' = [pre EXCEPT ![p] = {}]
    /\ UNCHANGED <<client, up, cache, pages, posts, employees, now, ups>>

\* get_post, lines 81-85: the cache check.
PostCache(p) ==
    LET l == procs[p]
        cached == CacheGet(PostDetailKey(l.post_id))
    IN  /\ l.pc = "po_cache"
        /\ ~Raises
        /\ procs' = [procs EXCEPT ![p] =
              IF cached # None
              THEN Return([l EXCEPT !.hit = TRUE], "ok",
                          Some(PostDetailResponse(cached[1])))
              ELSE [l EXCEPT !.pc = "po_db"]]
        /\ UNCHANGED <<client, up, cache, pages, posts, employees, now, pre, nreq, ups>>

\* The rows of table "comments" that belong to a post, as Comment.to_dict
\* gives them, newest first.  No handler writes the table: it holds one
\* comment of post p1 and none of post p2.
CommentsOf(post) ==
    IF post.post_id = "p1"
    THEN << [id |-> 1, comment_id |-> "c1", post_id |-> post.id,
             commented_at |-> 5] >>
    ELSE <<>>

\* get_post, lines 87-109: find the post and read its comments.
PostDb(p) ==
    LET l == procs[p]
        found == { r \in posts : r.post_id = l.post_id }
        post == CHOOSE r \in found : TRUE
        d == PostToDict(post)
    IN  /\ l.pc = "po_db"
        /\ procs' = [procs EXCEPT ![p] =
              IF found = {} THEN Return([l EXCEPT !.reads = @ + 1], "404", None)
              ELSE [l EXCEPT
                      !.reads = IF l.include_comments THEN @ + 2 ELSE @ + 1,
                      !.response_data =
                          Some([id |-> d.id, post_id |-> d.post_id,
                                page_id |-> d.page_id,
                                media_url |-> d.media_url,
                                like_count |-> d.like_count,
                                comment_count |-> d.comment_count,
                                posted_at |-> d.posted_at,
                                comments |-> IF l.include_comments
                                             THEN CommentsOf(post)
                                             ELSE <<>>]),
                      !.pc = "po_set"]]
        /\ UNCHANGED <<client, up, cache, pages, posts, employees, now, pre, nreq, ups>>

\* get_post, lines 111-114: cache the response and return it.
PostSet(p) ==
    LET l == procs[p]
        key == PostDetailKey(l.post_id)
    IN  /\ l.pc = "po_set"
        /\ ~Raises
        /\ cache' = CacheSet(cache, key, PostToJson(l.response_data[1]), 0)
        /\ pre' = Touch(IF client THEN {key} ELSE {})
        /\ procs' = [procs EXCEPT ![p] =
              Return([l EXCEPT !.sets = @ + 1], "ok",
                     Some(PostDetailResponse(l.response_data[1])))]
        /\ UNCHANGED <<client, up, pages, posts, employees, now, nreq, ups>>

\* The page and page_size query parameters, and the optional filters.
PageNumbers == 1..MaxPage
PageSizes == 1..MaxPageSize
MinFollowers == { None, Some(150) }
PageIdFilters == { None } \cup { Some(v) : v \in PageIds }

NextListing ==
    \/ \E p \in Procs, page \in PageNumbers, page_size \in PageSizes,
          min_followers \in MinFollowers :
             GetPages(p, page, page_size, min_followers)
    \/ \E p \in Procs, page \in PageNumbers, page_size \in PageSizes,
          page_id \in PageIdFilters : GetPosts(p, page, page_size, page_id)
    \/ \E p \in Procs, page_id \in PageIds, page \in PageNumbers,
          page_size \in PageSizes : GetPagePosts(p, page_id, page, page_size)
    \/ \E p \in Procs, page_id \in PageIds, page \in PageNumbers,
          page_size \in PageSizes : GetPageFollowers(p, page_id, page, page_size)
    \/ \E p \in Procs, post_id \in PostIds, include_comments \in BOOLEAN :
          StartGetPost(p, post_id, include_comments)
    \/ \E p \in Procs : PostCache(p)
    \/ \E p \in Procs : PostDb(p)
    \/ \E p \in Procs : PostSet(p)
    \/ Tick

SpecListing == InitListing /\ [][NextListing]_vars

-----------------------------------------------------------------------------
(* Properties of the listing routes *)

\* The request of worker p has been answered with a body.
Answered(p, op) ==
    procs[p].pc = "done" /\ procs[p].op = op /\ procs[p].result = "ok"

\* The stored page / post an item of a response was made from.
PostRowById(id) == CHOOSE r \in posts : r.id = id

BothPictures(row) ==
    row.profile_picture_url # NullStr /\ row.profile_picture_s3_url # NullStr

BothMedia(row) == row.media_url # NullStr /\ row.media_s3_url # NullStr

\* C21: for every Page or Post that has both an original and a cloned media
\* URL stored, every representation returned by the page list, the post
\* list, the post detail and the page-posts route carries the cloned URL,
\* never the original one.
C21_ClonedUrlAlwaysExposed ==
    \A p \in Procs :
        /\ Answered(p, "get_pages") =>
              \A i \in 1..Len(procs[p].resp[1].items) :
                 LET it == procs[p].resp[1].items[i]
                     row == PageById(pages, it.id)
                 IN  BothPictures(row) =>
                        it.profile_picture_url = row.profile_picture_s3_url
        /\ (Answered(p, "get_posts") \/ Answered(p, "get_page_posts")) =>
              \A i \in 1..Len(procs[p].resp[1].items) :
                 LET it == procs[p].resp[1].items[i]
                     row == PostRowById(it.id)
                 IN  BothMedia(row) => it.media_url = row.media_s3_url
        /\ Answered(p, "get_post") =>
              LET it == procs[p].resp[1]
                  row == PostRowById(it.id)
              IN  BothMedia(row) => it.media_url = row.media_s3_url

\* The sub-operations of a page: its posts and its followers.
SubOps == {"get_page_posts", "get_page_followers"}

\* C22: a page-posts or page-followers request makes no upstream call and
\* leaves the Entity Store (and the cache) as it found them; when no Page
\* with the requested identifier is stored it is answered not-found.
C22_SubOpsReadOnly ==
    [][\A p \in Procs :
          (procs'[p] # procs[p] /\ procs'[p].op \in SubOps) =>
             /\ pages' = pages /\ posts' = posts /\ employees' = employees
             /\ cache' = cache
             /\ procs'[p].upCalls = 0
             /\ procs'[p].pc = "done"
             /\ (PageBy(pages, procs'[p].pid) = None
                    <=> procs'[p].result = "404")
             /\ (PageBy(pages, procs'[p].pid) # None
                    <=> procs'[p].result = "ok")]_vars

\* A sub-operation has been asked for a page that is not stored, beside a
\* stored one, and was answered not-found.
C22_Witness ==
    \E p \in Procs :
        /\ procs[p].pc = "done" /\ procs[p].op \in SubOps
        /\ procs[p].result = "404" /\ PageBy(pages, procs[p].pid) = None
        /\ pages # {} /\ posts # {} /\ employees # {}

\* The routes whose response reports total_pages, has_next and has_prev.
Paginated == {"get_pages", "get_posts", "get_page_posts"}

\* C30: in every paginated listing response, total_pages is the least n
\* with n * page_size >= total (the ceiling of total / page_size, 0 for no
\* items), has_next holds exactly when page < total_pages and has_prev
\* exactly when page > 1.
C30_PaginationMath ==
    \A p \in Procs :
        (procs[p].pc = "done" /\ procs[p].op \in Paginated
            /\ procs[p].result = "ok") =>
           LET r == procs[p].resp[1]
           IN  /\ r.page_size >= 1
               /\ r.total_pages * r.page_size >= r.total
               /\ (r.total_pages - 1) * r.page_size < r.total
               /\ (r.total = 0 => r.total_pages = 0)
               /\ (r.has_next <=> r.page < r.total_pages)
               /\ (r.has_prev <=> r.page > 1)

\* A listing whose last page is not full has been answered, past its first
\* page.
C30_Witness ==
    \E p \in Procs :
        /\ procs[p].pc = "done" /\ procs[p].op \in Paginated
        /\ procs[p].result = "ok"
        /\ procs[p].resp[1].total % procs[p].resp[1].page_size # 0
        /\ procs[p].resp[1].total_pages >= 1
        /\ procs[p].resp[1].has_prev

-----------------------------------------------------------------------------
(* The summary routes of app/api/v1/ai_summary.py and the narrative engine *)
(* of app/services/ai_service.py, beside the refresh of a page.            *)

AI_SUMMARY_TTL == 1800
CompareMin == 2
CompareMax == 5

\* What the narrative engine gives back: the parsed analysis of its answer,
\* or None when the call or the parsing of its answer raises.
Analyses ==
    { None,
      Some([page_type |-> "startup", industry_classification |-> "sector"]) }

\* AIService._format_summary_response: the summary made from an analysis.
FormatSummary(page_data, analysis, t) ==
    [page_id |-> page_data.page_id,
     page_type |-> analysis.page_type,
     industry_classification |-> analysis.industry_classification,
     total_count |-> page_data.follower_count,
     total_posts |-> 0,
     generated_at |-> t]

\* AIService._generate_fallback_summary: page_data.get("industry", "") is the
\* stored industry, None included, because to_dict always has the key.
FallbackSummary(page_data, t) ==
    [page_id |-> page_data.page_id,
     page_type |-> "company",
     industry_classification |-> page_data.industry,
     total_count |-> page_data.follower_count,
     total_posts |-> 0,
     generated_at |-> t]

\* AISummaryResponse(**summary) validates: industry_classification is a
\* required str, so None raises ValidationError.
ValidSummary(d) == d.industry_classification # NullStr

\* json.loads(json.dumps(summary, default=str))
SummaryToJson(d) == [d EXCEPT !.generated_at = DateStr(@)]

\* AISummaryResponse(**d) / QuickSummaryResponse(**d): generated_at is a
\* datetime field.
SummaryResponse(d) == [d EXCEPT !.generated_at = ParseDate(@)]

\* POST /{page_id}/summary arrives; with force_refresh the cache check is
\* skipped (line 37).
StartAiSummary(p, pid, include_posts, include_employees, force_refresh) ==
    /\ Free(p)
    /\ nreq' = nreq + 1
    /\ procs' = [procs EXCEPT ![p] =
          [Idle EXCEPT !.op = "ai_summary",
                       !.pc = IF force_refresh THEN "as_db" ELSE "as_cache",
                       !.pid = pid, !.force_refresh = force_refresh,
                       !.include_posts = include_posts,
                       !.include_employees = include_employees,
                       !.had = PageBy(pages, pid) # None,
                       !.stale = Live(cache, AiSummaryKey(pid), now)]]
    /\ pre' = [pre EXCEPT ![p] = {}]
    /\ UNCHANGED <<client, up, cache, pages, posts, employees, now, ups>>

\* generate_ai_summary, lines 37-40: the cache check.
AiCache(p) ==
    LET l == procs[p]
        cached == CacheGet(AiSummaryKey(l.pid))
    IN  /\ l.pc = "as_cache"
        /\ ~Raises
        /\ procs' = [procs EXCEPT ![p] =
              IF cached = None THEN [l EXCEPT !.pc = "as_db"]
              ELSE IF ValidSummary(cached[1])
              THEN Return([l EXCEPT !.hit = TRUE], "ok",
                          Some(SummaryResponse(cached[1])))
              ELSE Return([l EXCEPT !.hit = TRUE], "500", None)]
        /\ UNCHANGED <<client, up, cache, pages, posts, employees, now, pre, nreq, ups>>

\* Mutant of AiDb: the summary of a page that is not stored is generated
\* from an empty record and cached.
AiDbMissingGenerated(p) ==
    LET l == procs[p]
        page == PageBy(pages, l.pid)
        blank == [SeedPage EXCEPT !.page_id = l.pid, !.follower_count = 0]
    IN  /\ l.pc = "as_db"
        /\ procs' = [procs EXCEPT ![p] =
              [l EXCEPT !.page = IF page = None THEN Some(blank) ELSE page,
                        !.reads = @ + 1, !.pc = "as_gen"]]
        /\ UNCHANGED <<client, up, cache, pages, posts, employees, now, pre, nreq, ups>>

\* generate_ai_summary, lines 42-72: find the page and read the samples of
\* its posts and employees.  The samples only go into the prompt.
AiDb(p) ==
    LET l == procs[p]
        page == PageBy(pages, l.pid)
        n == 1 + (IF l.include_posts THEN 1 ELSE 0)
               + (IF l.include_employees THEN 1 ELSE 0)
    IN  /\ l.pc = "as_db"
        /\ procs' = [procs EXCEPT ![p] =
              IF page = None THEN Return([l EXCEPT !.reads = @ + 1], "404", None)
              ELSE [l EXCEPT !.page = page, !.reads = @ + n, !.pc = "as_gen"]]
        /\ UNCHANGED <<client, up, cache, pages, posts, employees, now, pre, nreq, ups>>

\* AIService.generate_page_summary, lines 36-75: ask the engine; any
\* exception gives the fallback summary.
AiGenerate(p) ==
    LET l == procs[p]
        page_data == PageToDict(l.page[1])
    IN  /\ l.pc = "as_gen"
        /\ \E a \in Analyses :
              procs' = [procs EXCEPT ![p] =
                 [l EXCEPT !.aiCalls = @ + 1, !.aiFailed = (a = None),
                           !.response_data =
                               Some(IF a = None
                                    THEN FallbackSummary(page_data, now)
                                    ELSE FormatSummary(page_data, a[1], now)),
                           !.pc = "as_set"]]
        /\ UNCHANGED <<client, up, cache, pages, posts, employees, now, pre, nreq, ups>>

\* generate_ai_summary, lines 81-84: cache the summary for 30 minutes, then
\* build the response from it.
AiSet(p) ==
    LET l == procs[p]
        key == AiSummaryKey(l.pid)
        summary == l.response_data[1]
    IN  /\ l.pc = "as_set"
        /\ ~Raises
        /\ cache' = CacheSet(cache, key, SummaryToJson(summary), AI_SUMMARY_TTL)
        /\ pre' = Touch(IF client THEN {key} ELSE {})
        /\ procs' = [procs EXCEPT ![p] =
              IF ValidSummary(summary)
              THEN Return([l EXCEPT !.sets = @ + 1], "ok", Some(summary))
              ELSE Return([l EXCEPT !.sets = @ + 1], "500", None)]
        /\ UNCHANGED <<client, up, pages, posts, employees, now, nreq, ups>>

\* GET /quick-summary/{page_id} arrives.
StartQuickSummary(p, pid) ==
    /\ Free(p)
    /\ nreq' = nreq + 1
    /\ procs' = [procs EXCEPT ![p] =
          [Idle EXCEPT !.op = "quick_summary", !.pc = "qs_cache", !.pid = pid,
                       !.had = PageBy(pages, pid) # None,
                       !.stale = Live(cache, QuickSummaryKey(pid), now)]]
    /\ pre' = [pre EXCEPT ![p] = {}]
    /\ UNCHANGED <<client, up, cache, pages, posts, employees, now, ups>>

\* get_quick_summary, lines 96-100: the cache check.
QuickCache(p) ==
    LET l == procs[p]
        cached == CacheGet(QuickSummaryKey(l.pid))
    IN  /\ l.pc = "qs_cache"
        /\ ~Raises
        /\ procs' = [procs EXCEPT ![p] =
              IF cached = None THEN [l EXCEPT !.pc = "qs_db"]
              ELSE Return([l EXCEPT !.hit = TRUE], "ok",
                          Some(SummaryResponse(cached[1])))]
        /\ UNCHANGED <<client, up, cache, pages, posts, employees, now, pre, nreq, ups>>

\* get_quick_summary, lines 102-108: find the page.
QuickDb(p) ==
    LET l == procs[p]
        page == PageBy(pages, l.pid)
    IN  /\ l.pc = "qs_db"
        /\ procs' = [procs EXCEPT ![p] =
              IF page = None THEN Return([l EXCEPT !.reads = @ + 1], "404", None)
              ELSE [l EXCEPT !.page = page, !.reads = @ + 1, !.pc = "qs_stats"]]
        /\ UNCHANGED <<client, up, cache, pages, posts, employees, now, pre, nreq, ups>>

\* SUM(like_count) / SUM(comment_count) over a non-empty set of post rows.
RECURSIVE SumLikes(_)
SumLikes(rows) ==
    IF rows = {} THEN 0
    ELSE LET r == CHOOSE x \in rows : TRUE
         IN  r.like_count + SumLikes(rows \ {r})

RECURSIVE SumComments(_)
SumComments(rows) ==
    IF rows = {} THEN 0
    ELSE LET r == CHOOSE x \in rows : TRUE
         IN  r.comment_count + SumComments(rows \ {r})

\* round(float(sum / n), 1) in tenths, for n > 0: to the nearest tenth, a
\* tie to the even one.
RoundTenths(sum, n) ==
    LET q == (10 * sum) \div n
        r == (10 * sum) % n
    IN  IF 2 * r > n THEN q + 1
        ELSE IF 2 * r < n THEN q
        ELSE IF q % 2 = 0 THEN q ELSE q + 1

\* Lines 113-121: COUNT, AVG and SUM over the page's posts; AVG and SUM of no
\* rows are NULL.
PostStats(rows) ==
    LET n == Cardinality(rows)
    IN  [total_posts |-> n,
         avg_likes |-> IF n = 0 THEN None
                       ELSE Some(RoundTenths(SumLikes(rows), n)),
         avg_comments |-> IF n = 0 THEN None
                          ELSE Some(RoundTenths(SumComments(rows), n)),
         total_likes |-> IF n = 0 THEN None ELSE Some(SumLikes(rows))]

\* x or 0
OrZero(x) == IF x = None THEN 0 ELSE x[1]

\* Mutant of QuickStats: a page without posts is refused, its averages being
\* NULL.
QuickStatsRefusesEmpty(p) ==
    LET l == procs[p]
        stats == PostStats({ r \in posts : r.page_id = l.page[1].id })
    IN  /\ l.pc = "qs_stats"
        /\ procs' = [procs EXCEPT ![p] =
              IF stats.total_posts = 0
              THEN Return([l EXCEPT !.reads = @ + 1], "500", None)
              ELSE [l EXCEPT !.reads = @ + 1,
                             !.response_data = Some(stats), !.pc = "qs_emps"]]
        /\ UNCHANGED <<client, up, cache, pages, posts, employees, now, pre, nreq, ups>>

\* get_quick_summary, lines 110-121: the statistics of the page's posts.
QuickStats(p) ==
    LET l == procs[p]
        stats == PostStats({ r \in posts : r.page_id = l.page[1].id })
    IN  /\ l.pc = "qs_stats"
        /\ procs' = [procs EXCEPT ![p] =
              [l EXCEPT !.reads = @ + 1,
                        !.response_data = Some(stats), !.pc = "qs_emps"]]
        /\ UNCHANGED <<client, up, cache, pages, posts, employees, now, pre, nreq, ups>>

\* get_quick_summary, lines 123-150: count the employees and compose.  The
\* averages are in tenths.  page.employee_count is never assigned by the
\* pipeline and keeps its default 0, so the counted value is reported.
QuickEmployees(p) ==
    LET l == procs[p]
        page == l.page[1]
        stats == l.response_data[1]
        employee_count ==
            Cardinality({ r \in employees : r.page_id = page.id })
    IN  /\ l.pc = "qs_emps"
        /\ procs' = [procs EXCEPT ![p] =
              [l EXCEPT
                 !.reads = @ + 1,
                 !.response_data =
                     Some([page_id |-> l.pid,
                           follower_count |-> page.follower_count,
                           employee_count |-> employee_count,
                           total_posts |-> stats.total_posts,
                           total_engagement |-> OrZero(stats.total_likes),
                           avg_likes_per_post |-> OrZero(stats.avg_likes),
                           avg_comments_per_post |-> OrZero(stats.avg_comments),
                           industry |-> page.industry,
                           generated_at |-> now]),
                 !.pc = "qs_set"]]
        /\ UNCHANGED <<client, up, cache, pages, posts, employees, now, pre, nreq, ups>>

\* get_quick_summary, lines 152-155: cache for CACHE_TTL and return.
QuickSet(p) ==
    LET l == procs[p]
        key == QuickSummaryKey(l.pid)
    IN  /\ l.pc = "qs_set"
        /\ ~Raises
        /\ cache' = CacheSet(cache, key, SummaryToJson(l.response_data[1]), 0)
        /\ pre' = Touch(IF client THEN {key} ELSE {})
        /\ procs' = [procs EXCEPT ![p] =
              Return([l EXCEPT !.sets = @ + 1], "ok", l.response_data)]
        /\ UNCHANGED <<client, up, pages, posts, employees, now, nreq, ups>>

\* The identifier lists sent to compare_pages: from none to six identifiers.
CompareLists ==
    LET A == <<"a", "b">>
        B == <<"a", "b", "c">>
    IN  { <<>>, <<A>>, <<A, A>>, <<A, B>>, <<B, A, B>>,
          <<A, B, A, B, A>>, <<A, B, A, B, A, B>> }

\* Mutant of StartCompare: identifier lists of any length are looked up.
StartCompareUnbounded(p, page_ids) ==
    /\ Free(p)
    /\ nreq' = nreq + 1
    /\ procs' = [procs EXCEPT ![p] =
          IF Len(page_ids) = 0
          THEN Return([Idle EXCEPT !.op = "compare", !.page_ids = page_ids],
                      "404", None)
          ELSE [Idle EXCEPT !.op = "compare", !.pc = "cmp_lookup",
                            !.page_ids = page_ids]]
    /\ pre' = [pre EXCEPT ![p] = {}]
    /\ UNCHANGED <<client, up, cache, pages, posts, employees, now, ups>>

\* POST /compare arrives; lines 166-170 refuse a list of fewer than 2 or more
\* than 5 identifiers before any lookup.
StartCompare(p, page_ids) ==
    /\ Free(p)
    /\ nreq' = nreq + 1
    /\ procs' = [procs EXCEPT ![p] =
          IF Len(page_ids) < CompareMin \/ Len(page_ids) > CompareMax
          THEN Return([Idle EXCEPT !.op = "compare", !.page_ids = page_ids],
                      "400", None)
          ELSE [Idle EXCEPT !.op = "compare", !.pc = "cmp_lookup",
                            !.page_ids = page_ids]]
    /\ pre' = [pre EXCEPT ![p] = {}]
    /\ UNCHANGED <<client, up, cache, pages, posts, employees, now, ups>>

\* compare_pages, lines 174-183: one lookup per identifier; after the last
\* one, fewer than 2 pages found is not-found.
CompareLookup(p) ==
    LET l == procs[p]
        i == l.reads + 1
        page == PageBy(pages, l.page_ids[i])
        data == IF page = None THEN l.pages_data
                ELSE Append(l.pages_data, PageToDict(page[1]))
        m == [l EXCEPT !.reads = i, !.pages_data = data]
    IN  /\ l.pc = "cmp_lookup"
        /\ procs' = [procs EXCEPT ![p] =
              IF i < Len(l.page_ids) THEN m
              ELSE IF Len(data) < CompareMin THEN Return(m, "404", None)
              ELSE [m EXCEPT !.pc = "cmp_gen"]]
        /\ UNCHANGED <<client, up, cache, pages, posts, employees, now, pre, nreq, ups>>

\* sorted(pages, key=follower_count, reverse=True)[0]: the first of the
\* pages with the largest follower count.
TopByFollowers(data) ==
    LET best == CHOOSE i \in 1..Len(data) :
                   /\ \A j \in 1..Len(data) :
                         data[j].follower_count <= data[i].follower_count
                   /\ \A j \in 1..(i - 1) :
                         data[j].follower_count < data[i].follower_count
    IN  data[best].page_id

\* _generate_comparison, lines 197-245: the prompt slices every page's
\* description (line 205, outside the try, TypeError on None); then the
\* engine is asked and any exception gives the basic comparison.
CompareGenerate(p) ==
    LET l == procs[p]
        data == l.pages_data
        compared == [i \in 1..Len(data) |-> data[i].page_id]
    IN  /\ l.pc = "cmp_gen"
        /\ \E a \in Analyses :
              procs' = [procs EXCEPT ![p] =
                 IF \E i \in 1..Len(data) : data[i].description = NullStr
                 THEN Return(l, "500", None)
                 ELSE Return([l EXCEPT !.aiCalls = @ + 1,
                                       !.aiFailed = (a = None)],
                             "ok",
                             Some([pages_compared |-> compared,
                                   basic |-> (a = None),
                                   by_followers |->
                                       IF a = None
                                       THEN Some(TopByFollowers(data))
                                       ELSE None,
                                   generated_at |-> now]))]
        /\ UNCHANGED <<client, up, cache, pages, posts, employees, now, pre, nreq, ups>>

NextInsights ==
    \/ \E p \in Procs, pid \in PageIds, include_posts \in BOOLEAN,
          include_employees \in BOOLEAN, force_refresh \in BOOLEAN :
             StartAiSummary(p, pid, include_posts, include_employees,
                            force_refresh)
    \/ \E p \in Procs : AiCache(p)
    \/ \E p \in Procs : AiDb(p)
    \/ \E p \in Procs : AiGenerate(p)
    \/ \E p \in Procs : AiSet(p)
    \/ \E p \in Procs, pid \in PageIds : StartQuickSummary(p, pid)
    \/ \E p \in Procs : QuickCache(p)
    \/ \E p \in Procs : QuickDb(p)
    \/ \E p \in Procs : QuickStats(p)
    \/ \E p \in Procs : QuickEmployees(p)
    \/ \E p \in Procs : QuickSet(p)
    \/ \E p \in Procs, page_ids \in CompareLists : StartCompare(p, page_ids)
    \/ \E p \in Procs : CompareLookup(p)
    \/ \E p \in Procs : CompareGenerate(p)
    \/ \E p \in Procs, pid \in PageIds : StartRefresh(p, pid)
    \/ \E p \in Procs : RefreshClear(p)
    \/ \E p \in Procs : FsExist(p)
    \/ \E p \in Procs : LiCache(p)
    \/ \E p \in Procs : LiHttp(p)
    \/ \E p \in Procs : FsCommit(p)
    \/ \E p \in Procs : FsPosts(p)
    \/ \E p \in Procs : FsEmployees(p)
    \/ Tick

SpecInsights == InitListing /\ [][NextInsights]_vars

-----------------------------------------------------------------------------
(* Properties of the summary routes *)

\* The request of worker p has ended, with a response or an error.
Ended(p, op) == procs[p].pc = "done" /\ procs[p].op = op

\* C23: an AI-summary request for a stored Page during which the narrative
\* engine fails is answered successfully with the fallback summary, for
\* every stored Page, one whose industry is null included.
C23_EngineFailureDegrades ==
    \A p \in Procs :
        (Ended(p, "ai_summary") /\ procs[p].aiFailed) =>
           /\ procs[p].result = "ok"
           /\ procs[p].resp[1].page_type = "company"
           /\ procs[p].resp[1].page_id = procs[p].pid

\* C24: without force_refresh, a request that finds an unexpired entry
\* ai_summary:pid returns that entry and does not invoke the generator; with
\* force_refresh the cache is not read, the summary is made from the page as
\* the store holds it and the entry is overwritten with the new summary.
C24_SummaryCacheAndForce ==
    [][\A p \in Procs :
          LET l == procs[p]
              m == procs'[p]
              key == AiSummaryKey(l.pid)
          IN  /\ (l.pc = "as_cache" /\ m # l /\ CacheGet(key) # None) =>
                    /\ ~l.force_refresh
                    /\ m.pc = "done" /\ m.result = "ok" /\ m.aiCalls = 0
                    /\ m.resp = Some(SummaryResponse(cache[key][1].val))
              /\ (l.op = "ai_summary" /\ l.force_refresh /\ m # l) =>
                    /\ ~m.hit
                    /\ (l.pc = "as_db" /\ m.pc = "as_gen") =>
                          m.page = PageBy(pages, l.pid)
                    /\ (l.pc = "as_gen") =>
                          /\ m.aiCalls = 1
                          /\ m.response_data[1].total_count =
                                l.page[1].follower_count
                    /\ (l.pc = "as_set" /\ client) =>
                          cache'[key] =
                             Some([val |-> SummaryToJson(l.response_data[1]),
                                   exp |-> now + AI_SUMMARY_TTL])]_vars

\* C25: the refresh of pid deletes ai_summary:pid and quick_summary:pid when
\* it invalidates; from then on no summary entry of pid that was written
\* before the refresh began is live, and a summary request that is served
\* from the cache is served an entry written after the invalidation.
C25_RefreshBustsSummaries ==
    [][\A p \in Procs :
          LET l == procs[p]
              m == procs'[p]
          IN  /\ (l.op = "refresh" /\ l.pc = "rf_clear" /\ m # l) =>
                    \A k \in SummaryKeys(l.pid) : cache'[k] = None
              /\ (m.op = "refresh" /\ m.pc # "rf_clear") =>
                    \A k \in SummaryKeys(m.pid) :
                       k \in pre'[p] => ~Live(cache', k, now')
              /\ (m.op = "refresh" /\ m.pc # "rf_clear") =>
                    \A q \in Procs :
                       (procs[q].pc \in {"as_cache", "qs_cache"}
                          /\ procs'[q].hit /\ procs[q].pid = m.pid) =>
                             /\ AiSummaryKey(m.pid) \notin pre[p]
                             /\ QuickSummaryKey(m.pid) \notin pre[p]]_vars

\* A refresh has run for a page whose summary was in the cache when the
\* refresh began.
C25_Witness ==
    \E p \in Procs :
        /\ procs[p].op = "refresh" /\ procs[p].pc = "done"
        /\ procs[p].result = "ok"
        /\ procs[p].summaries # {}
        /\ \A k \in SummaryKeys(procs[p].pid) : cache[k] = None

\* The two summary routes.
SummaryOps == {"ai_summary", "quick_summary"}

\* C26: a summary request that is not served from the cache and finds no
\* Page with the requested identifier ends not-found at that point: the
\* generator has not been invoked and nothing has been written to the cache
\* or to the store.
C26_SummaryOfMissingPage ==
    [][\A p \in Procs :
          LET l == procs[p]
              m == procs'[p]
          IN  /\ (l.op \in SummaryOps /\ l.pc \in {"as_db", "qs_db"} /\ m # l
                    /\ PageBy(pages, l.pid) = None) =>
                    /\ m.pc = "done" /\ m.result = "404"
                    /\ ~m.hit /\ m.aiCalls = 0 /\ m.sets = 0
                    /\ cache' = cache
                    /\ pages' = pages /\ posts' = posts
                    /\ employees' = employees
              /\ (m.op \in SummaryOps /\ m.pc = "done" /\ m.result = "404") =>
                    m.aiCalls = 0 /\ m.sets = 0]_vars

\* Both summaries have been asked for a page that is not stored, with a
\* Redis client and nothing cached for the page.
C26_Witness ==
    \E p, q \in Procs :
        /\ Ended(p, "ai_summary") /\ Ended(q, "quick_summary")
        /\ procs[p].pid = procs[q].pid
        /\ procs[p].result = "404" /\ procs[q].result = "404"
        /\ client
        /\ \A k \in SummaryKeys(procs[p].pid) : cache[k] = None

\* C27: compare_pages looks at the number of identifiers first: fewer than 2
\* or more than 5 is a validation failure (400) before any lookup, whether
\* or not the identifiers resolve; a list of 2 to 5 identifiers of which
\* fewer than 2 resolve to stored Pages is not-found (404).
C27_CompareClassification ==
    [][\A p \in Procs :
          LET l == procs[p]
              m == procs'[p]
              n == Len(m.page_ids)
              last == Len(l.page_ids)
              found == Len(l.pages_data)
                         + (IF PageBy(pages, l.page_ids[last]) # None
                            THEN 1 ELSE 0)
          IN  /\ (m.op = "compare" /\ l.pc \in {"idle", "done"} /\ m # l) =>
                    IF n < 2 \/ n > 5
                    THEN m.pc = "done" /\ m.result = "400" /\ m.reads = 0
                    ELSE m.pc = "cmp_lookup"
              /\ (l.pc = "cmp_lookup" /\ m # l /\ l.reads + 1 = last) =>
                    IF found < 2
                    THEN m.pc = "done" /\ m.result = "404"
                    ELSE m.pc = "cmp_gen"
              /\ (m.op = "compare" /\ m.result = "400") => (n < 2 \/ n > 5)
              /\ (m.op = "compare" /\ m.result = "404") =>
                    (n >= 2 /\ n <= 5 /\ m.reads = n)]_vars

\* Six identifiers of which three resolve have been refused as invalid, and
\* two identifiers of which one resolves have been answered not-found.
C27_Witness ==
    \E p, q \in Procs :
        /\ Ended(p, "compare") /\ procs[p].result = "400"
        /\ Len(procs[p].page_ids) = 6
        /\ \A i \in {1, 3, 5} : PageBy(pages, procs[p].page_ids[i]) # None
        /\ Ended(q, "compare") /\ procs[q].result = "404"
        /\ Len(procs[q].page_ids) = 2
        /\ \E i \in 1..2 : PageBy(pages, procs[q].page_ids[i]) # None

\* C28: compare_pages given 2 to 5 identifiers of which at least 2 resolve
\* to stored Pages succeeds: once the lookups have found two pages or more,
\* the request is answered with a comparison of the pages found, by the
\* engine or the basic one, also when a page's description is null.
C28_CompareSucceeds ==
    [][\A p \in Procs :
          LET l == procs[p]
              m == procs'[p]
          IN  (l.pc = "cmp_gen" /\ m # l) =>
                 /\ m.pc = "done" /\ m.result = "ok"
                 /\ m.resp[1].pages_compared =
                       [i \in 1..Len(l.pages_data) |-> l.pages_data[i].page_id]
                 /\ m.resp[1].basic = m.aiFailed]_vars

\* C29: a quick summary computed for a stored Page that has no posts
\* succeeds and reports total_posts = 0, total_engagement = 0 and both
\* averages 0.
C29_QuickSummaryOfNoPosts ==
    [][\A p \in Procs :
          LET l == procs[p]
              m == procs'[p]
          IN  /\ (l.pc = "qs_stats" /\ m # l
                    /\ { r \in posts : r.page_id = l.page[1].id } = {}) =>
                    /\ m.pc = "qs_emps"
                    /\ m.response_data[1].total_posts = 0
              /\ (l.pc = "qs_emps" /\ m # l
                    /\ l.response_data[1].total_posts = 0) =>
                    /\ m.pc = "qs_set"
                    /\ m.response_data[1].total_posts = 0
                    /\ m.response_data[1].total_engagement = 0
                    /\ m.response_data[1].avg_likes_per_post = 0
                    /\ m.response_data[1].avg_comments_per_post = 0
              /\ (l.pc = "qs_set" /\ m # l) =>
                    /\ m.pc = "done" /\ m.result = "ok"
                    /\ m.resp = l.response_data]_vars

\* A quick summary has been computed and returned for a stored page without
\* posts.
C29_Witness ==
    \E p \in Procs :
        /\ Ended(p, "quick_summary") /\ procs[p].result = "ok"
        /\ ~procs[p].hit
        /\ procs[p].resp[1].total_posts = 0
        /\ procs[p].resp[1].avg_likes_per_post = 0
        /\ \E r \in pages :
              /\ r.page_id = procs[p].pid
              /\ { x \in posts : x.page_id = r.id } = {}

-----------------------------------------------------------------------------
(* The summary routes over the lifetime of their cache entries: the clock   *)
(* passes the instants just before and at the two TTLs.                    *)

\* The instants the clock stops at.
Instants == { 0, CACHE_TTL - 1, CACHE_TTL, AI_SUMMARY_TTL - 1, AI_SUMMARY_TTL }

\* Time passes to a later instant; Redis drops the entries whose TTL has
\* lapsed by then.
Elapse ==
    \E t \in Instants :
        /\ t > now
        /\ now' = t
        /\ cache' = [k \in AllKeys |->
                        IF Live(cache, k, t) THEN cache[k] ELSE None]
        /\ UNCHANGED <<client, up, pages, posts, employees, procs, pre, nreq, ups>>

NextExpiry ==
    \/ \E p \in Procs, pid \in PageIds, force_refresh \in BOOLEAN :
             StartAiSummary(p, pid, TRUE, TRUE, force_refresh)
    \/ \E p \in Procs : AiCache(p)
    \/ \E p \in Procs : AiDb(p)
    \/ \E p \in Procs : AiGenerate(p)
    \/ \E p \in Procs : AiSet(p)
    \/ \E p \in Procs, pid \in PageIds : StartQuickSummary(p, pid)
    \/ \E p \in Procs : QuickCache(p)
    \/ \E p \in Procs : QuickDb(p)
    \/ \E p \in Procs : QuickStats(p)
    \/ \E p \in Procs : QuickEmployees(p)
    \/ \E p \in Procs : QuickSet(p)
    \/ Elapse

SpecExpiry == InitListing /\ [][NextExpiry]_vars

\* The cache key of the summary a request is about.
SummaryKeyOf(l) ==
    IF l.op = "ai_summary" THEN AiSummaryKey(l.pid) ELSE QuickSummaryKey(l.pid)

\* The TTL of the summary kind a request is about.
SummaryTtlOf(l) == IF l.op = "ai_summary" THEN AI_SUMMARY_TTL ELSE CACHE_TTL

-----------------------------------------------------------------------------
(* The top-N helpers of app/services/ai_service.py, applied to the lists   *)
(* _prepare_context hands them.                                            *)

TopHashtagsLimit == 10
TopValuesLimit == 5

\* `if value`: None and the empty string are skipped.
Truthy(v) == v # NullStr /\ v # ""

\* counts[value] = counts.get(value, 0) + 1 on a dict, which keeps its keys
\* in the order of their first insertion: a sequence of [k, n].
CountInto(counts, v) ==
    IF \E i \in 1..Len(counts) : counts[i].k = v
    THEN [i \in 1..Len(counts) |->
             IF counts[i].k = v THEN [counts[i] EXCEPT !.n = @ + 1]
             ELSE counts[i]]
    ELSE Append(counts, [k |-> v, n |-> 1])

\* The loop of _get_top_values, lines 257-260, over values[i..].
RECURSIVE CountValues(_, _, _)
CountValues(values, i, counts) ==
    IF i > Len(values) THEN counts
    ELSE CountValues(values, i + 1,
                     IF Truthy(values[i]) THEN CountInto(counts, values[i])
                     ELSE counts)

\* The inner loop of _get_top_hashtags, line 249-250, over tags[i..].
RECURSIVE CountTags(_, _, _)
CountTags(tags, i, counts) ==
    IF i > Len(tags) THEN counts
    ELSE CountTags(tags, i + 1, CountInto(counts, tags[i]))

\* The outer loop of _get_top_hashtags, lines 248-250, over posts[i..].
RECURSIVE CountHashtags(_, _, _)
CountHashtags(psts, i, counts) ==
    IF i > Len(psts) THEN counts
    ELSE CountHashtags(psts, i + 1, CountTags(psts[i].hashtags, 1, counts))

\* Mutant of InsertDesc: an item goes before the items of the same count.
InsertDescBeforeTies(sorted, x) ==
    LET k == Cardinality({ i \in 1..Len(sorted) : sorted[i].n > x.n })
    IN  SubSeq(sorted, 1, k) \o <<x>> \o SubSeq(sorted, k + 1, Len(sorted))

\* One step of sorted(..., key=count, reverse=True): the sort is stable, so
\* an item stays behind the earlier items of the same count.
InsertDesc(sorted, x) ==
    LET k == Cardinality({ i \in 1..Len(sorted) : sorted[i].n >= x.n })
    IN  SubSeq(sorted, 1, k) \o <<x>> \o SubSeq(sorted, k + 1, Len(sorted))

\* sorted(counts.items(), key=lambda x: x[1], reverse=True)
RECURSIVE SortedByCount(_)
SortedByCount(items) ==
    IF items = <<>> THEN <<>>
    ELSE InsertDesc(SortedByCount(SubSeq(items, 1, Len(items) - 1)),
                    items[Len(items)])

\* [k for k, n in items[:limit]]
TopKeys(items, limit) ==
    [i \in 1..(IF Len(items) < limit THEN Len(items) ELSE limit) |-> items[i].k]

\* AIService._get_top_hashtags(posts, limit)
GetTopHashtags(psts, limit) ==
    TopKeys(SortedByCount(CountHashtags(psts, 1, <<>>)), limit)

\* AIService._get_top_values(values, limit)
GetTopValues(values, limit) ==
    TopKeys(SortedByCount(CountValues(values, 1, <<>>)), limit)

\* The sequences of at most n elements of S.
SeqsUpTo(S, n) == UNION { [1..k -> S] : k \in 0..n }

\* The lists of titles, locations or industries of the employee sample:
\* short lists with None and "" among the values, and lists of six distinct
\* values followed by up to two more.
ValueLists ==
    LET base == <<"v3", "v1", "v6", "v2", "v5", "v4">>
    IN  SeqsUpTo({"v2", "v1", "", NullStr}, 3)
        \cup { base \o s :
                 s \in SeqsUpTo({"v1", "v4", "v5", "v6", "", NullStr}, 2) }
        \cup { <<NullStr, "">> \o s \o base :
                 s \in SeqsUpTo({"v4", "v5"}, 2) }

\* The post samples: the hashtags are words (_extract_hashtags), spread
\* over up to three posts; eleven distinct tags followed by up to two more,
\* and short lists.
HashtagLists ==
    LET base == <<"t03", "t01", "t11", "t02", "t10", "t04", "t09", "t05",
                  "t08", "t06", "t07">>
        flat == { base \o s : s \in SeqsUpTo({"t01", "t06", "t07", "t10"}, 2) }
                  \cup { s \o base : s \in SeqsUpTo({"t07", "t06"}, 2) }
                  \cup SeqsUpTo({"t02", "t01"}, 3)
    IN  { << [hashtags |-> IF c <= Len(f) THEN SubSeq(f, 1, c) ELSE <<>>],
             [hashtags |-> <<>>],
             [hashtags |-> SubSeq(f, c + 1, Len(f))] >> :
            f \in flat, c \in {0, 1} }

\* No helper has been called: its argument is chosen.
InitTop ==
    /\ client = TRUE
    /\ up = TRUE
    /\ cache = [k \in AllKeys |-> None]
    /\ pages = {}
    /\ posts = {}
    /\ employees = {}
    /\ now = 0
    /\ procs = [p \in Procs |-> Idle]
    /\ pre = [p \in Procs |-> {}]
    /\ nreq = 0
    /\ \/ \E v \in ValueLists :
             ups = [fn |-> "_get_top_values", values |-> v, psts |-> <<>>,
                    result |-> None]
       \/ \E ps \in HashtagLists :
             ups = [fn |-> "_get_top_hashtags", values |-> <<>>, psts |-> ps,
                    result |-> None]

\* _prepare_context, line 112: self._get_top_hashtags(posts_data)
TopHashtags ==
    /\ ups.fn = "_get_top_hashtags"
    /\ ups.result = None
    /\ ups' = [ups EXCEPT
                 !.result = Some(GetTopHashtags(ups.psts, TopHashtagsLimit))]
    /\ UNCHANGED <<client, up, cache, pages, posts, employees, now, procs, pre, nreq>>

\* _prepare_context, lines 122-124: self._get_top_values([...])
TopValues ==
    /\ ups.fn = "_get_top_values"
    /\ ups.result = None
    /\ ups' = [ups EXCEPT
                 !.result = Some(GetTopValues(ups.values, TopValuesLimit))]
    /\ UNCHANGED <<client, up, cache, pages, posts, employees, now, procs, pre, nreq>>

NextTop ==
    \/ TopHashtags
    \/ TopValues

SpecTop == InitTop /\ [][NextTop]_vars

\* The values a helper was given, in the order it meets them.
RECURSIVE FlatTags(_, _)
FlatTags(psts, i) ==
    IF i > Len(psts) THEN <<>> ELSE psts[i].hashtags \o FlatTags(psts, i + 1)

TopInput == IF ups.fn = "_get_top_values" THEN ups.values ELSE FlatTags(ups.psts, 1)

TopLimit == IF ups.fn = "_get_top_values" THEN TopValuesLimit ELSE TopHashtagsLimit

\* How often v occurs in a list, and where it occurs first.
Frequency(list, v) == Cardinality({ i \in 1..Len(list) : list[i] = v })

FirstAt(list, v) == CHOOSE i \in 1..Len(list) :
                        list[i] = v /\ \A j \in 1..(i - 1) : list[j] # v

\* v ranks before w: it is more frequent, or as frequent and met first.
RanksBefore(list, v, w) ==
    \/ Frequency(list, v) > Frequency(list, w)
    \/ /\ Frequency(list, v) = Frequency(list, w)
       /\ FirstAt(list, v) < FirstAt(list, w)

\* C32: the list a top-N helper returns holds the N most frequent non-empty
\* values of its input (all of them when there are fewer than N), each
\* once, in descending order of frequency, values of equal frequency in the
\* order the input first has them.
C32_TopNByFrequency ==
    ups.result # None =>
        LET list == TopInput
            top == ups.result[1]
            values == { list[i] : i \in 1..Len(list) } \ {"", NullStr}
            n == Cardinality(values)
        IN  /\ Len(top) = IF n < TopLimit THEN n ELSE TopLimit
            /\ \A i \in 1..Len(top) : top[i] \in values
            /\ \A i, j \in 1..Len(top) :
                  i < j => RanksBefore(list, top[i], top[j])
            /\ \A v \in values :
                  (\A i \in 1..Len(top) : top[i] # v) =>
                      \A i \in 1..Len(top) : RanksBefore(list, top[i], v)

\* A helper has cut its list at N: more than N distinct values were given,
\* two of the returned ones are equally frequent, and a value as frequent as
\* the last returned one was left out.
C32_Witness ==
    /\ ups.result # None
    /\ Len(ups.result[1]) = TopLimit
    /\ \E i \in 1..(TopLimit - 1) :
          /\ Frequency(TopInput, ups.result[1][i]) >
                Frequency(TopInput, ups.result[1][TopLimit])
          /\ Frequency(TopInput, ups.result[1][i]) =
                Frequency(TopInput, ups.result[1][i + 1])
    /\ \E k \in 1..Len(TopInput) :
          /\ Truthy(TopInput[k])
          /\ \A i \in 1..TopLimit : ups.result[1][i] # TopInput[k]
          /\ Frequency(TopInput, TopInput[k]) =
                Frequency(TopInput, ups.result[1][TopLimit])

-----------------------------------------------------------------------------
(* Properties of the page detail beside a refresh *)

\* C33: once a refresh of a stored Page has returned successfully, having
\* changed the stored record, the cache holds no page_detail:pid entry
\* composed from the record as it was before the refresh.
C33_NoStaleDetailAfterRefresh ==
    \A p \in Procs :
        LET l == procs[p]
            key == PageDetailKey(l.pid)
            row == PageBy(pages, l.pid)
        IN  (/\ l.op = "refresh" /\ l.pc = "done" /\ l.result = "ok"
             /\ l.before # None /\ row # None
             /\ row[1].follower_count # l.before[1].follower_count
             /\ Live(cache, key, now))
            => cache[key][1].val.follower_count # l.before[1].follower_count


\* The cache keys made from the identifier of page v.
KeysOfPage(v) == OwnKeys(v) \cup SummaryKeys(v)

\* C34: no step of a refresh of page p changes a cache entry of another
\* page q, also when p occurs inside q.
C34_RefreshLeavesOtherPages ==
    [][\A p \in Procs :
          (Step(p) /\ procs[p].op = "refresh") =>
              \A q \in PageIds \ {procs[p].pid} :
                  \A k \in KeysOfPage(q) : cache'[k] = cache[k]]_vars

-----------------------------------------------------------------------------
(* Properties of the post routes *)

\* The comment_ids of a list of comments.
CommentIds(comments) == [i \in 1..Len(comments) |-> comments[i].comment_id]

-----------------------------------------------------------------------------
(* Properties of the summary routes: the request's flags *)

\* C36: an AI-summary request without force_refresh that asks for the posts
\* (or the employees) to be included is never answered with the summary
\* that another request generated and cached without them.
C36_SummaryFollowsFlags ==
    \A p, q \in Procs :
        (/\ p # q
         /\ Ended(p, "ai_summary") /\ Ended(q, "ai_summary")
         /\ procs[p].pid = procs[q].pid
         /\ procs[p].result = "ok" /\ procs[p].sets = 1
         /\ procs[q].result = "ok" /\ procs[q].hit /\ ~procs[q].force_refresh
         /\ procs[q].resp = procs[p].resp)
        => /\ procs[q].include_posts => procs[p].include_posts
           /\ procs[q].include_employees => procs[p].include_employees

-----------------------------------------------------------------------------
(* Properties of the post listing: the page_id filter *)

\* A get_posts request reads the store three times exactly when it came
\* with a page_id filter: the lookup of lines 33-35, the count, the rows.
HasPageFilter(p) == procs[p].op = "get_posts" /\ procs[p].reads = 3

\* The stored posts of the Page with page_id v; none when no such Page.
PostsOfPage(v) ==
    { r \in posts : \E g \in pages : g.page_id = v /\ r.page_id = g.id }

\* C37: every item of a post listing asked with a page_id filter is a post
\* of the Page with that page_id, and total counts that page's posts only;
\* for a page_id without a stored Page the listing is empty.
C37_PostFilterSelectsPage ==
    \A p \in Procs :
        (Answered(p, "get_posts") /\ HasPageFilter(p)) =>
            LET r == procs[p].resp[1]
                own == PostsOfPage(procs[p].pid)
            IN  /\ \A i \in 1..Len(r.items) :
                      \E x \in own : x.id = r.items[i].id
                /\ r.total = Cardinality(own)

-----------------------------------------------------------------------------
(* Properties of the read routes: errors and the cache *)

\* The read routes that keep their response in the cache.
CachedReads == {"get_page", "get_post", "ai_summary", "quick_summary"}

\* C38: the step with which a read request ends in an error changes no
\* cache entry, and every live ai_summary entry is one a later hit can
\* return without error.
C38_ErrorsLeaveCache ==
    [][/\ \A p \in Procs :
            (/\ procs[p].op \in CachedReads
             /\ procs[p].pc # "done" /\ procs'[p].pc = "done"
             /\ procs'[p].result # "ok")
            => cache' = cache
       /\ \A v \in PageIds :
            Live(cache', AiSummaryKey(v), now') =>
                ValidSummary(cache'[AiSummaryKey(v)][1].val)]_vars

=============================================================================
